---------------------------- MODULE Spec2Model ----------------------------
(***************************************************************************)
(* State-machine model of the input manager of scrcpy (kuuldor fork):      *)
(* app/src/input_manager.c with the gamepad touchmap of app/src/touchmap.h *)
(* and its loader (parse_touchmap_config).                                 *)
(*                                                                         *)
(* The struct sc_input_manager is the record im, the screen collaborator   *)
(* the record screen.  Every handler of the source is an operator from a   *)
(* machine record m = [im, screen, out, calls] and an event e to the       *)
(* machine record after the handler returned: out is the sequence of       *)
(* control messages handed to sc_controller_push_msg (each with the        *)
(* queue's answer ok), calls the sequence of collaborator invocations.     *)
(* What the environment answers during a handler (queue full, clipboard    *)
(* text, modifier state, file dialog) travels in the event record.         *)
(***************************************************************************)
EXTENDS Integers, Sequences, FiniteSets, TLC

VARIABLES im, screen, ev, out, calls, hist

vars == <<im, screen, ev, out, calls, hist>>

\* A null pointer.
NULL == [null |-> TRUE]

----------------------------------------------------------------------------
(* Library constants used by the source *)

SDL_MAX_SINT16 == 32767

SDL_CONTROLLER_BUTTON_INVALID == -1
SDL_CONTROLLER_BUTTON_A == 0
SDL_CONTROLLER_BUTTON_B == 1
SDL_CONTROLLER_BUTTON_X == 2
SDL_CONTROLLER_BUTTON_Y == 3
SDL_CONTROLLER_BUTTON_BACK == 4
SDL_CONTROLLER_BUTTON_GUIDE == 5
SDL_CONTROLLER_BUTTON_START == 6
SDL_CONTROLLER_BUTTON_LEFTSTICK == 7
SDL_CONTROLLER_BUTTON_RIGHTSTICK == 8
SDL_CONTROLLER_BUTTON_LEFTSHOULDER == 9
SDL_CONTROLLER_BUTTON_RIGHTSHOULDER == 10
SDL_CONTROLLER_BUTTON_DPAD_UP == 11
SDL_CONTROLLER_BUTTON_DPAD_DOWN == 12
SDL_CONTROLLER_BUTTON_DPAD_LEFT == 13
SDL_CONTROLLER_BUTTON_DPAD_RIGHT == 14
SDL_CONTROLLER_BUTTON_MISC1 == 15
SDL_CONTROLLER_BUTTON_PADDLE1 == 16
SDL_CONTROLLER_BUTTON_PADDLE2 == 17
SDL_CONTROLLER_BUTTON_PADDLE3 == 18
SDL_CONTROLLER_BUTTON_PADDLE4 == 19
SDL_CONTROLLER_BUTTON_TOUCHPAD == 20
SDL_CONTROLLER_BUTTON_MAX == 21

SDL_CONTROLLER_AXIS_LEFTX == 0
SDL_CONTROLLER_AXIS_LEFTY == 1
SDL_CONTROLLER_AXIS_RIGHTX == 2
SDL_CONTROLLER_AXIS_RIGHTY == 3
SDL_CONTROLLER_AXIS_TRIGGERLEFT == 4
SDL_CONTROLLER_AXIS_TRIGGERRIGHT == 5

\* touchmap.h
SC_GPTM_BASE_FINGER_ID == 100
SC_GPTM_WALK_CONTROL_DEADZONE == 25

\* Virtual pointer ids (uint64 -3 and -4 in the source's input_events.h).
POINTER_ID_VIRTUAL_MOUSE == -3
POINTER_ID_VIRTUAL_FINGER == -4

SC_SEQUENCE_INVALID == 0

----------------------------------------------------------------------------
(* C arithmetic *)

\* C integer division truncates toward zero (b > 0 here).
TruncDiv(a, b) == IF a >= 0 THEN a \div b ELSE -((-a) \div b)

\* Conversion to uint8_t.
ToUint8(v) == v % 256

Point(px, py) == [x |-> px, y |-> py]

----------------------------------------------------------------------------
(* The touchmap loader: parse_touchmap_config and its helpers.             *)
(* A JSON object is a record: cJSON_GetObjectItem(o, "k") is non-null iff  *)
(* "k" is a field of o.  A JSON array is a sequence.                       *)

Has(o, k) == k \in DOMAIN o

button_name_to_value(button_name) ==
    CASE button_name = "A" -> SDL_CONTROLLER_BUTTON_A
      [] button_name = "B" -> SDL_CONTROLLER_BUTTON_B
      [] button_name = "X" -> SDL_CONTROLLER_BUTTON_X
      [] button_name = "Y" -> SDL_CONTROLLER_BUTTON_Y
      [] button_name = "BACK" \/ button_name = "SELECT" -> SDL_CONTROLLER_BUTTON_BACK
      [] button_name = "GUIDE" \/ button_name = "HOME" -> SDL_CONTROLLER_BUTTON_GUIDE
      [] button_name = "START" -> SDL_CONTROLLER_BUTTON_START
      [] button_name = "LTHUMB" \/ button_name = "L3" -> SDL_CONTROLLER_BUTTON_LEFTSTICK
      [] button_name = "RTHUMB" \/ button_name = "R3" -> SDL_CONTROLLER_BUTTON_RIGHTSTICK
      [] button_name = "LB" \/ button_name = "L1" -> SDL_CONTROLLER_BUTTON_LEFTSHOULDER
      [] button_name = "RB" \/ button_name = "R1" -> SDL_CONTROLLER_BUTTON_RIGHTSHOULDER
      [] button_name = "UP" -> SDL_CONTROLLER_BUTTON_DPAD_UP
      [] button_name = "DOWN" -> SDL_CONTROLLER_BUTTON_DPAD_DOWN
      [] button_name = "LEFT" -> SDL_CONTROLLER_BUTTON_DPAD_LEFT
      [] button_name = "RIGHT" -> SDL_CONTROLLER_BUTTON_DPAD_RIGHT
      [] button_name = "MISC" -> SDL_CONTROLLER_BUTTON_MISC1
      [] button_name = "PADDLE1" -> SDL_CONTROLLER_BUTTON_PADDLE1
      [] button_name = "PADDLE2" -> SDL_CONTROLLER_BUTTON_PADDLE2
      [] button_name = "PADDLE3" -> SDL_CONTROLLER_BUTTON_PADDLE3
      [] button_name = "PADDLE4" -> SDL_CONTROLLER_BUTTON_PADDLE4
      [] button_name = "TOUCHPAD" -> SDL_CONTROLLER_BUTTON_TOUCHPAD
      [] button_name = "LT" \/ button_name = "L2" ->
            SDL_CONTROLLER_BUTTON_MAX + SDL_CONTROLLER_AXIS_TRIGGERLEFT
      \* the source tests "L2" a second time here, so "R2" falls through
      [] button_name = "RT" ->
            SDL_CONTROLLER_BUTTON_MAX + SDL_CONTROLLER_AXIS_TRIGGERRIGHT
      [] OTHER -> SDL_CONTROLLER_BUTTON_INVALID

\* The comparison handed to qsort and bsearch.
sc_gptm_compare_btn(a, b) == a.button - b.button

\* A touch button as memset(map, 0, alloc_size) leaves it.
ZeroButton ==
    [center |-> Point(0, 0), radius |-> 0, current_pos |-> Point(0, 0),
     touch_down |-> FALSE, finger_id |-> 0, button |-> 0, is_skill |-> FALSE]

ZeroWalk ==
    [center |-> Point(0, 0), radius |-> 0, current_pos |-> Point(0, 0),
     touch_down |-> FALSE, finger_id |-> 0]

\* qsort(base, nmemb, size, compar).  C leaves the order of elements that
\* compare equal unspecified: tie chooses between the two orders an
\* implementation can give a pair of equal elements.
RECURSIVE qsort_insert(_, _, _)
qsort_insert(sorted, b, tie) ==
    IF sorted = <<>> THEN <<b>>
    ELSE LET c == sc_gptm_compare_btn(b, Head(sorted)) IN
         IF c < 0 \/ (c = 0 /\ tie)
         THEN <<b>> \o sorted
         ELSE <<Head(sorted)>> \o qsort_insert(Tail(sorted), b, tie)

RECURSIVE qsort(_, _)
qsort(base, tie) ==
    IF base = <<>> THEN <<>>
    ELSE qsort_insert(qsort(SubSeq(base, 1, Len(base) - 1), tie),
                      base[Len(base)], tie)

\* bsearch(key, base, nmemb, size, compar): the binary search of the C
\* library over [l, u); returns the (1-based) index found, 0 for NULL.
RECURSIVE bsearch_loop(_, _, _, _)
bsearch_loop(key, base, l, u) ==
    IF l >= u THEN 0
    ELSE LET idx == (l + u) \div 2
             c == sc_gptm_compare_btn(key, base[idx + 1])
         IN IF c < 0 THEN bsearch_loop(key, base, l, idx)
            ELSE IF c > 0 THEN bsearch_loop(key, base, idx + 1, u)
            ELSE idx + 1

bsearch(key, base, nmemb) == bsearch_loop(key, base, 0, nmemb)

\* The first loop of parse_touchmap_config (lines 134-154): the entries of
\* button_mappings that have "touch" and "button", packed in file order.
RECURSIVE parse_buttons(_, _)
parse_buttons(buttons, finger_id) ==
    IF buttons = <<>> THEN <<>>
    ELSE LET button == Head(buttons) IN
         IF Has(button, "touch") /\ Has(button, "button")
         THEN <<[center |-> Point(button.touch.x, button.touch.y),
                 radius |-> 0,
                 current_pos |-> Point(0, 0),
                 touch_down |-> FALSE,
                 finger_id |-> finger_id,
                 button |-> ToUint8(button_name_to_value(button.button)),
                 is_skill |-> FALSE]>>
              \o parse_buttons(Tail(buttons), finger_id + 1)
         ELSE parse_buttons(Tail(buttons), finger_id)

\* The second loop (lines 156-175): the entries of skill_casting.
RECURSIVE parse_skills(_, _)
parse_skills(skills, finger_id) ==
    IF skills = <<>> THEN <<>>
    ELSE LET skill == Head(skills) IN
         IF Has(skill, "center") /\ Has(skill, "radius") /\ Has(skill, "button")
         THEN <<[center |-> Point(skill.center.x, skill.center.y),
                 radius |-> skill.radius,
                 current_pos |-> Point(0, 0),
                 touch_down |-> FALSE,
                 finger_id |-> finger_id,
                 button |-> ToUint8(button_name_to_value(skill.button)),
                 is_skill |-> TRUE]>>
              \o parse_skills(Tail(skills), finger_id + 1)
         ELSE parse_skills(Tail(skills), finger_id)

\* The array after both loops: the parsed entries, then the entries the
\* loops skipped, still zero from the memset.
touchmap_buttons(mappings, first_id) ==
    LET buttons == IF Has(mappings, "button_mappings")
                   THEN mappings.button_mappings ELSE <<>>
        skills == IF Has(mappings, "skill_casting")
                  THEN mappings.skill_casting ELSE <<>>
        btn_cnt == Len(buttons)
        skill_cnt == Len(skills)
        pb == parse_buttons(buttons, first_id)
        ps == parse_skills(skills, first_id + Len(pb))
        filled == pb \o ps
    IN filled \o [i \in 1..(btn_cnt + skill_cnt - Len(filled)) |-> ZeroButton]

\* Lines 119-132: the walk control, left zero when a field is missing.
touchmap_walk(mappings) ==
    IF Has(mappings, "walk_control")
       /\ Has(mappings.walk_control, "center")
       /\ Has(mappings.walk_control, "radius")
    THEN [center |-> Point(mappings.walk_control.center.x,
                           mappings.walk_control.center.y),
          radius |-> mappings.walk_control.radius,
          current_pos |-> Point(0, 0),
          touch_down |-> FALSE,
          finger_id |-> SC_GPTM_BASE_FINGER_ID]
    ELSE ZeroWalk

\* touchmap_unsorted without the finger_id++ of line 129: the first entry
\* gets the finger of the walk control.
touchmap_unsorted_shared_id(mappings) ==
    touchmap_buttons(mappings, SC_GPTM_BASE_FINGER_ID)

\* The array before the final qsort.
touchmap_unsorted(mappings) ==
    LET walk == touchmap_walk(mappings)
        first_id == IF walk = ZeroWalk THEN SC_GPTM_BASE_FINGER_ID
                    ELSE SC_GPTM_BASE_FINGER_ID + 1
    IN touchmap_buttons(mappings, first_id)

\* Line 177.
keep_file_order(buttons, tie) == buttons

sort_buttons(buttons, tie) == qsort(buttons, tie)

\* parse_touchmap_config(filename), reading the file system fs (a function
\* from paths to files); NULL when the loader returns NULL.  A file name is
\* NULL or [path |-> p].
parse_touchmap_config(fs, filename, tie) ==
    IF filename = NULL THEN NULL
    ELSE IF filename.path \notin DOMAIN fs THEN NULL     \* fopen fails
    ELSE LET file == fs[filename.path] IN
         IF ~Has(file, "root") THEN NULL                 \* cJSON_Parse fails
         ELSE IF ~Has(file.root, "mappings") THEN NULL   \* map stays NULL
         ELSE LET mappings == file.root.mappings
                  buttons == sort_buttons(touchmap_unsorted(mappings), tie)
              IN [walk |-> touchmap_walk(mappings),
                  button_cnt |-> Len(buttons),
                  buttons |-> buttons]


----------------------------------------------------------------------------
(* The file system the loader reads: touchmap files by path.  A path that  *)
(* is no field cannot be opened; a file without root is no valid JSON.     *)

TouchmapFS ==
    [ok_json |->
        [root |-> [mappings |->
            [walk_control |-> [center |-> Point(100, 200), radius |-> 50],
             button_mappings |-> <<[touch |-> Point(50, 50), button |-> "A"]>>,
             skill_casting |-> <<[center |-> Point(300, 300), radius |-> 40,
                                  button |-> "RT"]>>]]],
     unsorted_json |->
        [root |-> [mappings |->
            [walk_control |-> [center |-> Point(100, 200), radius |-> 50],
             button_mappings |-> <<[touch |-> Point(70, 70), button |-> "Y"],
                                   [touch |-> Point(50, 50), button |-> "A"]>>,
             skill_casting |-> <<[center |-> Point(300, 100), radius |-> 30,
                                  button |-> "R2"]>>]]],
     partial_json |->
        [root |-> [mappings |->
            [button_mappings |-> <<[button |-> "B"],
                                   [touch |-> Point(50, 50), button |-> "A"]>>]]],
     skills_json |->
        [root |-> [mappings |->
            [walk_control |-> [center |-> Point(100, 200), radius |-> 50],
             button_mappings |-> <<[touch |-> Point(50, 50), button |-> "A"]>>,
             skill_casting |-> <<[center |-> Point(300, 300), radius |-> 40,
                                  button |-> "RT"],
                                 [center |-> Point(300, 100), radius |-> 30,
                                  button |-> "LT"]>>]]],
     nomap_json |-> [root |-> [version |-> 1]],
     bad_json |-> [text |-> "{"]]

----------------------------------------------------------------------------
(* The machine record and the outbound queue *)

\* The answer of the bounded outbound queue to the k-th push of a handler.
Acc(e, k) == e.acc[IF k <= Len(e.acc) THEN k ELSE Len(e.acc)]

\* Whether the next sc_controller_push_msg of this handler is accepted.
push_ok(m, e) == Acc(e, Len(m.out) + 1)

\* sc_controller_push_msg(im->controller, &msg): the message is handed to
\* the queue, which accepts it or is full.
sc_controller_push_msg(m, e, msg) ==
    [m EXCEPT !.out = Append(@, [msg |-> msg, ok |-> push_ok(m, e)])]

\* A collaborator invocation, recorded in order.
call(m, c) == [m EXCEPT !.calls = Append(@, c)]

\* What a pointer field holds that sc_input_manager_init never assigned,
\* when the memory of the manager was not zero: an address that is not
\* NULL and at which no touchmap lives.
Wild == [wild |-> TRUE]

\* The values im->game_touchmap can have after an init that did not assign
\* it: whatever the memory held.
Indeterminate == {NULL, Wild}

\* A read or a free through a pointer that holds no object.  What the
\* build does from here on is undefined; the call marks the place.
invalid_access(m, ptr, where) ==
    IF ptr = Wild THEN call(m, [fn |-> "invalid_access", at |-> where]) ELSE m

TouchMsg(touch_id, action, point, frame_size) ==
    [type |-> "INJECT_TOUCH_EVENT",
     action |-> action,
     screen_size |-> frame_size,
     point |-> point,
     pointer_id |-> touch_id,
     pressure |-> IF action = "UP" THEN 0 ELSE 1,
     action_button |-> 0,
     buttons |-> 0]

\* simulate_virtual_touch: the machine after the push; its return value is
\* push_ok(m, e) of the machine before.
simulate_virtual_touch(m, e, touch_id, action, point) ==
    sc_controller_push_msg(m, e,
        TouchMsg(touch_id, action, point, m.screen.frame_size))

----------------------------------------------------------------------------
(* The gamepad touchmap engine *)

\* set_button_down that leaves a button down on its release.
set_button_down_only(m, i, down) ==
    [m EXCEPT !.im.game_touchmap.buttons[i].touch_down = @ \/ down]

set_button_down(m, i, down) ==
    [m EXCEPT !.im.game_touchmap.buttons[i].touch_down = down]

sc_handle_touchmap_button(m, e, button, state) ==
    LET map == m.im.game_touchmap
        i == bsearch([button |-> button], map.buttons, map.button_cnt)
    IN IF i = 0 THEN m
       ELSE LET touch_btn == map.buttons[i] IN
            IF state # 0
            THEN IF ~touch_btn.touch_down
                 THEN simulate_virtual_touch(set_button_down(m, i, TRUE), e,
                          touch_btn.finger_id, "DOWN", touch_btn.center)
                 ELSE m
            ELSE IF touch_btn.touch_down
                 THEN simulate_virtual_touch(set_button_down(m, i, FALSE), e,
                          touch_btn.finger_id, "UP", touch_btn.center)
                 ELSE m

\* current_pos after the axis update shared by the walk control and the
\* skill buttons: center + value * radius / SDL_MAX_SINT16 on one axis.  The
\* product is an int64_t in the source; with the radii of TouchmapFS every
\* value stays far inside int32_t.
axis_position(ctl, is_x_axis, value) ==
    IF is_x_axis
    THEN [ctl.current_pos EXCEPT !.x =
             ctl.center.x + TruncDiv(value * ctl.radius, SDL_MAX_SINT16)]
    ELSE [ctl.current_pos EXCEPT !.y =
             ctl.center.y + TruncDiv(value * ctl.radius, SDL_MAX_SINT16)]

\* sc_handle_touchmap_walk taking the dead zone for a radius: the squared
\* distance is compared with the square of the dead zone.
sc_handle_touchmap_walk_radius_deadzone(m, e, is_x_axis, value) ==
    LET walk0 == m.im.game_touchmap.walk
        walk == [walk0 EXCEPT !.current_pos = axis_position(walk0, is_x_axis, value)]
        wctl_x == walk.current_pos.x - walk.center.x
        wctl_y == walk.current_pos.y - walk.center.y
        distance == wctl_x * wctl_x + wctl_y * wctl_y
        m1 == [m EXCEPT !.im.game_touchmap.walk = walk]
    IN IF distance < SC_GPTM_WALK_CONTROL_DEADZONE * SC_GPTM_WALK_CONTROL_DEADZONE
       THEN IF walk.touch_down
            THEN simulate_virtual_touch(
                     [m1 EXCEPT !.im.game_touchmap.walk.touch_down = FALSE], e,
                     walk.finger_id, "UP", walk.center)
            ELSE m1
       ELSE LET m2 == IF ~walk.touch_down
                      THEN simulate_virtual_touch(
                               [m1 EXCEPT !.im.game_touchmap.walk.touch_down = TRUE],
                               e, walk.finger_id, "DOWN", walk.center)
                      ELSE m1
            IN simulate_virtual_touch(m2, e, walk.finger_id, "MOVE",
                                      walk.current_pos)

sc_handle_touchmap_walk(m, e, is_x_axis, value) ==
    LET walk0 == m.im.game_touchmap.walk
        walk == [walk0 EXCEPT !.current_pos = axis_position(walk0, is_x_axis, value)]
        wctl_x == walk.current_pos.x - walk.center.x
        wctl_y == walk.current_pos.y - walk.center.y
        distance == wctl_x * wctl_x + wctl_y * wctl_y
        m1 == [m EXCEPT !.im.game_touchmap.walk = walk]
    IN IF distance < SC_GPTM_WALK_CONTROL_DEADZONE
       THEN IF walk.touch_down
            THEN simulate_virtual_touch(
                     [m1 EXCEPT !.im.game_touchmap.walk.touch_down = FALSE], e,
                     walk.finger_id, "UP", walk.center)
            ELSE m1
       ELSE LET m2 == IF ~walk.touch_down
                      THEN simulate_virtual_touch(
                               [m1 EXCEPT !.im.game_touchmap.walk.touch_down = TRUE],
                               e, walk.finger_id, "DOWN", walk.center)
                      ELSE m1
            IN simulate_virtual_touch(m2, e, walk.finger_id, "MOVE",
                                      walk.current_pos)

\* sc_handle_skill_button_direction sending the position without storing
\* it in the button.
sc_handle_skill_button_direction_unsaved(m, e, i, is_x_axis, value) ==
    LET touch_btn == m.im.game_touchmap.buttons[i]
    IN simulate_virtual_touch(m, e, touch_btn.finger_id, "MOVE",
                              axis_position(touch_btn, is_x_axis, value))

sc_handle_skill_button_direction(m, e, i, is_x_axis, value) ==
    LET touch_btn == m.im.game_touchmap.buttons[i]
        pos == axis_position(touch_btn, is_x_axis, value)
    IN simulate_virtual_touch(
           [m EXCEPT !.im.game_touchmap.buttons[i].current_pos = pos], e,
           touch_btn.finger_id, "MOVE", pos)

\* The loop of sc_handle_touchmap_skill_cast from index i (1-based).
RECURSIVE skill_cast_loop(_, _, _, _, _)
skill_cast_loop(m, e, i, is_x_axis, value) ==
    IF i > m.im.game_touchmap.button_cnt THEN m
    ELSE LET btn == m.im.game_touchmap.buttons[i] IN
         skill_cast_loop(
             IF btn.is_skill /\ btn.touch_down
             THEN sc_handle_skill_button_direction(m, e, i, is_x_axis, value)
             ELSE m,
             e, i + 1, is_x_axis, value)

sc_handle_touchmap_skill_cast(m, e, is_x_axis, value) ==
    skill_cast_loop(m, e, 1, is_x_axis, value)

input_manager_process_controller_axis(m, e) ==
    sc_controller_push_msg(m, e,
        [type |-> "INJECT_GAME_CONTROLLER_AXIS",
         id |-> e.which, axis |-> e.axis, value |-> e.value])

input_manager_process_controller_button(m, e) ==
    sc_controller_push_msg(m, e,
        [type |-> "INJECT_GAME_CONTROLLER_BUTTON",
         id |-> e.which, button |-> e.button, state |-> e.state])

\* case SDL_CONTROLLERAXISMOTION of sc_input_manager_handle_event.
handle_controller_axis(m, e) ==
    IF ~m.im.controller THEN m
    ELSE IF m.im.forward_game_controllers
    THEN input_manager_process_controller_axis(m, e)
    ELSE IF m.im.game_touchmap = Wild
    THEN invalid_access(m, m.im.game_touchmap, "handle_event:1254")
    ELSE IF m.im.game_touchmap # NULL
    THEN LET value == e.value IN
         CASE e.axis \in {SDL_CONTROLLER_AXIS_LEFTX, SDL_CONTROLLER_AXIS_LEFTY} ->
                sc_handle_touchmap_walk(m, e,
                    e.axis = SDL_CONTROLLER_AXIS_LEFTX, value)
           [] e.axis \in {SDL_CONTROLLER_AXIS_RIGHTX, SDL_CONTROLLER_AXIS_RIGHTY} ->
                sc_handle_touchmap_skill_cast(m, e,
                    e.axis = SDL_CONTROLLER_AXIS_RIGHTX, value)
           [] e.axis \in {SDL_CONTROLLER_AXIS_TRIGGERLEFT,
                          SDL_CONTROLLER_AXIS_TRIGGERRIGHT} ->
                sc_handle_touchmap_button(m, e,
                    ToUint8(SDL_CONTROLLER_BUTTON_MAX + e.axis),
                    ToUint8(TruncDiv(value * 5, SDL_MAX_SINT16)))
           [] OTHER -> m
    ELSE m

\* handle_controller_button without the test of control (lines 1274-1276).
handle_controller_button_uncontrolled(m, e) ==
    IF m.im.forward_game_controllers
    THEN input_manager_process_controller_button(m, e)
    ELSE IF m.im.game_touchmap = Wild
    THEN invalid_access(m, m.im.game_touchmap, "handle_event:1281")
    ELSE IF m.im.game_touchmap # NULL
    THEN sc_handle_touchmap_button(m, e, e.button, e.state)
    ELSE m

\* handle_controller_button testing game_touchmap before
\* forward_game_controllers.
handle_controller_button_touchmap_first(m, e) ==
    IF ~m.im.controller THEN m
    ELSE IF m.im.game_touchmap = Wild
    THEN invalid_access(m, m.im.game_touchmap, "handle_event:1281")
    ELSE IF m.im.game_touchmap # NULL
    THEN sc_handle_touchmap_button(m, e, e.button, e.state)
    ELSE IF m.im.forward_game_controllers
    THEN input_manager_process_controller_button(m, e)
    ELSE m

\* case SDL_CONTROLLERBUTTONDOWN / SDL_CONTROLLERBUTTONUP.
handle_controller_button(m, e) ==
    IF ~m.im.controller THEN m
    ELSE IF m.im.forward_game_controllers
    THEN input_manager_process_controller_button(m, e)
    ELSE IF m.im.game_touchmap = Wild
    THEN invalid_access(m, m.im.game_touchmap, "handle_event:1281")
    ELSE IF m.im.game_touchmap # NULL
    THEN sc_handle_touchmap_button(m, e, e.button, e.state)
    ELSE m

----------------------------------------------------------------------------
(* Modifier masks.  A modifier state is the set of the modifier keys held; *)
(* the bitwise and of two masks is their intersection, and a mask is true  *)
(* iff it is not empty.                                                    *)

KMOD_CTRL == {"KMOD_LCTRL", "KMOD_RCTRL"}
KMOD_SHIFT == {"KMOD_LSHIFT", "KMOD_RSHIFT"}
KMOD_ALT == {"KMOD_LALT", "KMOD_RALT"}
KMOD_GUI == {"KMOD_LGUI", "KMOD_RGUI"}

SC_SDL_SHORTCUT_MODS_MASK == KMOD_CTRL \cup KMOD_ALT \cup KMOD_GUI

to_sdl_mod(shortcut_mod) ==
    (IF "SC_SHORTCUT_MOD_LCTRL" \in shortcut_mod THEN {"KMOD_LCTRL"} ELSE {})
    \cup (IF "SC_SHORTCUT_MOD_RCTRL" \in shortcut_mod THEN {"KMOD_RCTRL"} ELSE {})
    \cup (IF "SC_SHORTCUT_MOD_LALT" \in shortcut_mod THEN {"KMOD_LALT"} ELSE {})
    \cup (IF "SC_SHORTCUT_MOD_RALT" \in shortcut_mod THEN {"KMOD_RALT"} ELSE {})
    \cup (IF "SC_SHORTCUT_MOD_LSUPER" \in shortcut_mod THEN {"KMOD_LGUI"} ELSE {})
    \cup (IF "SC_SHORTCUT_MOD_RSUPER" \in shortcut_mod THEN {"KMOD_RGUI"} ELSE {})

is_shortcut_mod(i, sdl_mod) ==
    ((sdl_mod \cap SC_SDL_SHORTCUT_MODS_MASK) \cap i.sdl_shortcut_mods) # {}

is_shortcut_key(i, keycode) ==
    \/ ("KMOD_LCTRL" \in i.sdl_shortcut_mods /\ keycode = "SDLK_LCTRL")
    \/ ("KMOD_RCTRL" \in i.sdl_shortcut_mods /\ keycode = "SDLK_RCTRL")
    \/ ("KMOD_LALT" \in i.sdl_shortcut_mods /\ keycode = "SDLK_LALT")
    \/ ("KMOD_RALT" \in i.sdl_shortcut_mods /\ keycode = "SDLK_RALT")
    \/ ("KMOD_LGUI" \in i.sdl_shortcut_mods /\ keycode = "SDLK_LGUI")
    \/ ("KMOD_RGUI" \in i.sdl_shortcut_mods /\ keycode = "SDLK_RGUI")

mouse_bindings_has_secondary_click(mb) ==
    \/ mb.right_click = "SC_MOUSE_BINDING_CLICK"
    \/ mb.middle_click = "SC_MOUSE_BINDING_CLICK"
    \/ mb.click4 = "SC_MOUSE_BINDING_CLICK"
    \/ mb.click5 = "SC_MOUSE_BINDING_CLICK"

----------------------------------------------------------------------------
(* Remote actions *)

\* assert(cond): a failed assertion is recorded (with NDEBUG the handler
\* goes on).
c_assert(m, cond, where) ==
    IF cond THEN m ELSE call(m, [fn |-> "assert_failed", at |-> where])

send_keycode(m, e, keycode, action, name) ==
    sc_controller_push_msg(
        c_assert(m, m.im.controller /\ m.im.kp # NULL, "send_keycode"), e,
        [type |-> "INJECT_KEYCODE",
         action |-> IF action = "SC_ACTION_DOWN" THEN "AKEY_EVENT_ACTION_DOWN"
                    ELSE "AKEY_EVENT_ACTION_UP",
         keycode |-> keycode, metastate |-> 0, repeat |-> 0])

action_home(m, e, action) == send_keycode(m, e, "AKEYCODE_HOME", action, "HOME")
action_back(m, e, action) == send_keycode(m, e, "AKEYCODE_BACK", action, "BACK")
action_app_switch(m, e, action) ==
    send_keycode(m, e, "AKEYCODE_APP_SWITCH", action, "APP_SWITCH")
action_power(m, e, action) == send_keycode(m, e, "AKEYCODE_POWER", action, "POWER")
action_volume_up(m, e, action) ==
    send_keycode(m, e, "AKEYCODE_VOLUME_UP", action, "VOLUME_UP")
action_volume_down(m, e, action) ==
    send_keycode(m, e, "AKEYCODE_VOLUME_DOWN", action, "VOLUME_DOWN")
action_menu(m, e, action) == send_keycode(m, e, "AKEYCODE_MENU", action, "MENU")

press_back_or_turn_screen_on(m, e, action) ==
    sc_controller_push_msg(
        c_assert(m, m.im.controller /\ m.im.kp # NULL,
                 "press_back_or_turn_screen_on"), e,
        [type |-> "BACK_OR_SCREEN_ON",
         action |-> IF action = "SC_ACTION_DOWN" THEN "AKEY_EVENT_ACTION_DOWN"
                    ELSE "AKEY_EVENT_ACTION_UP"])

expand_notification_panel(m, e) ==
    sc_controller_push_msg(
        c_assert(m, m.im.controller, "expand_notification_panel"), e,
        [type |-> "EXPAND_NOTIFICATION_PANEL"])

expand_settings_panel(m, e) ==
    sc_controller_push_msg(
        c_assert(m, m.im.controller, "expand_settings_panel"), e,
        [type |-> "EXPAND_SETTINGS_PANEL"])

collapse_panels(m, e) ==
    sc_controller_push_msg(
        c_assert(m, m.im.controller, "collapse_panels"), e,
        [type |-> "COLLAPSE_PANELS"])

\* The machine after get_device_clipboard; its return value is push_ok of
\* the machine before.
get_device_clipboard(m, e, copy_key) ==
    sc_controller_push_msg(
        c_assert(m, m.im.controller /\ m.im.kp # NULL, "get_device_clipboard"), e,
        [type |-> "GET_CLIPBOARD", copy_key |-> copy_key])

\* set_device_clipboard: [m |-> the machine after, ret |-> its return
\* value].  e.clip is what SDL_GetClipboardText() returns (NULL or a text),
\* e.strdup_ok whether strdup succeeds.
set_device_clipboard(m, e, paste, sequence) ==
    LET m0 == c_assert(m, m.im.controller /\ m.im.kp # NULL, "set_device_clipboard")
        m1 == call(m0, [fn |-> "SDL_GetClipboardText", ret |-> e.clip])
    IN IF e.clip = NULL THEN [m |-> m1, ret |-> FALSE]
       ELSE IF ~e.strdup_ok THEN [m |-> m1, ret |-> FALSE]
       ELSE [m |-> sc_controller_push_msg(m1, e,
                       [type |-> "SET_CLIPBOARD", sequence |-> sequence,
                        text |-> e.clip.text, paste |-> paste]),
             ret |-> push_ok(m1, e)]

set_screen_power_mode(m, e, mode) ==
    sc_controller_push_msg(
        c_assert(m, m.im.controller, "set_screen_power_mode"), e,
        [type |-> "SET_SCREEN_POWER_MODE", mode |-> mode])

switch_fps_counter_state(m) ==
    IF m.screen.fps_counter_started
    THEN call([m EXCEPT !.screen.fps_counter_started = FALSE],
              [fn |-> "sc_fps_counter_stop"])
    ELSE call([m EXCEPT !.screen.fps_counter_started = TRUE],
              [fn |-> "sc_fps_counter_start"])

\* clipboard_paste without the test for an empty text (lines 306-310).
clipboard_paste_empty_too(m, e) ==
    LET m0 == c_assert(m, m.im.controller /\ m.im.kp # NULL, "clipboard_paste")
        m1 == call(m0, [fn |-> "SDL_GetClipboardText", ret |-> e.clip])
    IN IF e.clip = NULL THEN m1
       ELSE IF ~e.strdup_ok THEN m1
       ELSE sc_controller_push_msg(m1, e,
                [type |-> "INJECT_TEXT", text |-> e.clip.text])

clipboard_paste(m, e) ==
    LET m0 == c_assert(m, m.im.controller /\ m.im.kp # NULL, "clipboard_paste")
        m1 == call(m0, [fn |-> "SDL_GetClipboardText", ret |-> e.clip])
    IN IF e.clip = NULL THEN m1
       ELSE IF e.clip.text = "" THEN m1
       ELSE IF ~e.strdup_ok THEN m1
       ELSE sc_controller_push_msg(m1, e,
                [type |-> "INJECT_TEXT", text |-> e.clip.text])

rotate_device(m, e) ==
    sc_controller_push_msg(c_assert(m, m.im.controller, "rotate_device"), e,
        [type |-> "ROTATE_DEVICE"])

open_hard_keyboard_settings(m, e) ==
    sc_controller_push_msg(
        c_assert(m, m.im.controller, "open_hard_keyboard_settings"), e,
        [type |-> "OPEN_HARD_KEYBOARD_SETTINGS"])

\* sc_orientation_apply and sc_screen_set_orientation belong to the screen:
\* the transform requested is recorded.
apply_orientation_transform(m, transform) ==
    call(m, [fn |-> "sc_screen_set_orientation", transform |-> transform])

\* The screen's sc_screen_set_paused(screen, paused).
sc_screen_set_paused(m, paused) ==
    call([m EXCEPT !.screen.paused = paused],
         [fn |-> "sc_screen_set_paused", paused |-> paused])

\* sc_input_manager_process_text_input without the test of lines 369-372.
process_text_input_with_shortcut_mod(m, e) ==
    IF ~m.im.kp.ops.process_text THEN m
    ELSE call(m, [fn |-> "process_text", text |-> e.text])

sc_input_manager_process_text_input(m, e) ==
    IF ~m.im.kp.ops.process_text THEN m
    ELSE IF is_shortcut_mod(m.im, e.modstate) THEN m
    ELSE call(m, [fn |-> "process_text", text |-> e.text])

----------------------------------------------------------------------------
(* Touchmap file dialog *)

\* free(im->game_touchmap); im->game_touchmap = NULL, when it is not NULL.
free_touchmap(m) ==
    IF m.im.game_touchmap # NULL
    THEN call(invalid_access([m EXCEPT !.im.game_touchmap = NULL],
                             m.im.game_touchmap, "free"),
              [fn |-> "free_touchmap"])
    ELSE m

\* e.dialog is what tinyfd_openFileDialog returns (NULL when cancelled),
\* e.tie the order qsort gives equal elements.
open_touchmap_file(m, e) ==
    LET m0 == c_assert(m, m.im.controller, "open_touchmap_file")
        file_name == e.dialog
    IN IF file_name = NULL THEN m0
       ELSE LET map == parse_touchmap_config(TouchmapFS, file_name, e.tie)
                m1 == call([free_touchmap(m0) EXCEPT !.im.game_touchmap = map],
                           [fn |-> "parse_touchmap_config",
                            filename |-> file_name, loaded |-> map # NULL])
            IN IF map = NULL THEN m1
               ELSE [m1 EXCEPT !.im.forward_game_controllers = FALSE]

\* turn_off_touchmap without line 470.
turn_off_touchmap_keep_routing(m) == free_touchmap(m)

turn_off_touchmap(m) ==
    [free_touchmap(m) EXCEPT !.im.forward_game_controllers = TRUE]

----------------------------------------------------------------------------
(* Keyboard *)

\* key_repeat_update counting the auto-repeat presses too.
key_repeat_update_on_any_down(i, keycode, mod, down, repeat) ==
    IF down
    THEN IF keycode = i.last_keycode /\ mod = i.last_mod
         THEN [i EXCEPT !.key_repeat = @ + 1]
         ELSE [i EXCEPT !.key_repeat = 0,
                        !.last_keycode = keycode,
                        !.last_mod = mod]
    ELSE i

\* Lines 495-503: the count of consecutive non-repeat presses of one key
\* with one modifier state.
key_repeat_update(i, keycode, mod, down, repeat) ==
    IF down /\ ~repeat
    THEN IF keycode = i.last_keycode /\ mod = i.last_mod
         THEN [i EXCEPT !.key_repeat = @ + 1]
         ELSE [i EXCEPT !.key_repeat = 0,
                        !.last_keycode = keycode,
                        !.last_mod = mod]
    ELSE i

\* shortcut_n opening the settings panel on the first press of a burst and
\* the notification panel on the later ones.
shortcut_n_settings_first(m, e, down, shift, repeat) ==
    IF m.im.controller /\ ~repeat /\ down /\ ~m.screen.paused
    THEN IF shift THEN collapse_panels(m, e)
         ELSE IF m.im.key_repeat = 0
         THEN expand_settings_panel(m, e)
         ELSE expand_notification_panel(m, e)
    ELSE m

\* Lines 633-643: case SDLK_n of the switch.
shortcut_n(m, e, down, shift, repeat) ==
    IF m.im.controller /\ ~repeat /\ down /\ ~m.screen.paused
    THEN IF shift THEN collapse_panels(m, e)
         ELSE IF m.im.key_repeat = 0
         THEN expand_notification_panel(m, e)
         ELSE expand_settings_panel(m, e)
    ELSE m

\* case SDLK_z pausing a screen that is not paused and unpausing one that
\* is, when Shift is not held.
shortcut_z_toggle(m, down, shift, repeat) ==
    IF m.screen.video /\ down /\ ~repeat
    THEN sc_screen_set_paused(m, ~shift /\ ~m.screen.paused)
    ELSE m

\* Lines 542-546: case SDLK_z of the switch.
shortcut_z(m, down, shift, repeat) ==
    IF m.screen.video /\ down /\ ~repeat
    THEN sc_screen_set_paused(m, ~shift)
    ELSE m

\* Lines 505-670: the switch over the key of a shortcut.
process_shortcut(m, e, keycode, down, shift, repeat) ==
    LET control == m.im.controller
        paused == m.screen.paused
        video == m.screen.video
        haskp == m.im.kp # NULL
        action == IF down THEN "SC_ACTION_DOWN" ELSE "SC_ACTION_UP"
    IN CASE keycode = "SDLK_h" ->
              IF haskp /\ ~shift /\ ~repeat /\ ~paused
              THEN action_home(m, e, action) ELSE m
         [] keycode \in {"SDLK_b", "SDLK_BACKSPACE"} ->
              IF haskp /\ ~shift /\ ~repeat /\ ~paused
              THEN action_back(m, e, action) ELSE m
         [] keycode = "SDLK_s" ->
              IF haskp /\ ~shift /\ ~repeat /\ ~paused
              THEN action_app_switch(m, e, action) ELSE m
         [] keycode = "SDLK_m" ->
              IF haskp /\ ~shift /\ ~repeat /\ ~paused
              THEN action_menu(m, e, action) ELSE m
         [] keycode = "SDLK_p" ->
              IF haskp /\ ~shift /\ ~repeat /\ ~paused
              THEN action_power(m, e, action) ELSE m
         [] keycode = "SDLK_o" ->
              IF control /\ ~repeat /\ down /\ ~paused
              THEN set_screen_power_mode(m, e,
                       IF shift THEN "SC_SCREEN_POWER_MODE_NORMAL"
                       ELSE "SC_SCREEN_POWER_MODE_OFF")
              ELSE m
         [] keycode = "SDLK_z" -> shortcut_z(m, down, shift, repeat)
         [] keycode = "SDLK_DOWN" ->
              IF shift
              THEN IF video /\ ~repeat /\ down
                   THEN apply_orientation_transform(m, "SC_ORIENTATION_FLIP_180")
                   ELSE m
              ELSE IF haskp /\ ~paused
                   THEN action_volume_down(m, e, action) ELSE m
         [] keycode = "SDLK_UP" ->
              IF shift
              THEN IF video /\ ~repeat /\ down
                   THEN apply_orientation_transform(m, "SC_ORIENTATION_FLIP_180")
                   ELSE m
              ELSE IF haskp /\ ~paused
                   THEN action_volume_up(m, e, action) ELSE m
         [] keycode = "SDLK_LEFT" ->
              IF video /\ ~repeat /\ down
              THEN apply_orientation_transform(m,
                       IF shift THEN "SC_ORIENTATION_FLIP_0"
                       ELSE "SC_ORIENTATION_270")
              ELSE m
         [] keycode = "SDLK_RIGHT" ->
              IF video /\ ~repeat /\ down
              THEN apply_orientation_transform(m,
                       IF shift THEN "SC_ORIENTATION_FLIP_0"
                       ELSE "SC_ORIENTATION_90")
              ELSE m
         [] keycode = "SDLK_c" ->
              IF haskp /\ ~shift /\ ~repeat /\ down /\ ~paused
              THEN get_device_clipboard(m, e, "SC_COPY_KEY_COPY") ELSE m
         [] keycode = "SDLK_x" ->
              IF haskp /\ ~shift /\ ~repeat /\ down /\ ~paused
              THEN get_device_clipboard(m, e, "SC_COPY_KEY_CUT") ELSE m
         [] keycode = "SDLK_v" ->
              IF haskp /\ ~repeat /\ down /\ ~paused
              THEN IF shift \/ m.im.legacy_paste
                   THEN clipboard_paste(m, e)
                   ELSE set_device_clipboard(m, e, TRUE, SC_SEQUENCE_INVALID).m
              ELSE m
         [] keycode = "SDLK_f" ->
              IF video /\ ~shift /\ ~repeat /\ down
              THEN call(m, [fn |-> "sc_screen_switch_fullscreen"]) ELSE m
         [] keycode = "SDLK_w" ->
              IF video /\ ~shift /\ ~repeat /\ down
              THEN call(m, [fn |-> "sc_screen_resize_to_fit"]) ELSE m
         [] keycode = "SDLK_g" ->
              IF video /\ ~shift /\ ~repeat /\ down
              THEN call(m, [fn |-> "sc_screen_resize_to_pixel_perfect"]) ELSE m
         [] keycode = "SDLK_i" ->
              IF video /\ ~shift /\ ~repeat /\ down
              THEN switch_fps_counter_state(m) ELSE m
         [] keycode = "SDLK_n" -> shortcut_n(m, e, down, shift, repeat)
         [] keycode = "SDLK_r" ->
              IF control /\ ~shift /\ ~repeat /\ down /\ ~paused
              THEN rotate_device(m, e) ELSE m
         [] keycode = "SDLK_k" ->
              IF control /\ ~shift /\ ~repeat /\ down /\ ~paused
                 /\ haskp /\ m.im.kp.hid
              THEN open_hard_keyboard_settings(m, e) ELSE m
         [] keycode = "SDLK_t" ->
              IF control /\ ~repeat /\ down /\ ~paused /\ haskp
              THEN IF shift THEN turn_off_touchmap(m)
                   ELSE open_touchmap_file(m, e)
              ELSE m
         [] OTHER -> m

\* The call of the key processor's process_key (lines 705-714).
forward_key(m, e, ack_to_wait) ==
    call(c_assert(m, m.im.kp.ops.process_key, "process_key:713"),
         [fn |-> "process_key",
          action |-> IF e.type = "SDL_KEYDOWN" THEN "SC_ACTION_DOWN"
                     ELSE "SC_ACTION_UP",
          keycode |-> e.keycode,
          repeat |-> e.repeat,
          mods_state |-> e.mod,
          ack_to_wait |-> ack_to_wait])

\* process_plain_key taking the sequence number before it knows whether the
\* clipboard was synchronized.
process_plain_key_eager_sequence(m, e, keycode, down, ctrl, shift, repeat) ==
    IF m.im.kp = NULL \/ m.screen.paused THEN m
    ELSE LET is_ctrl_v == ctrl /\ ~shift /\ keycode = "SDLK_v" /\ down /\ ~repeat
         IN IF m.im.clipboard_autosync /\ is_ctrl_v
            THEN IF m.im.legacy_paste THEN clipboard_paste(m, e)
                 ELSE LET sequence == IF m.im.kp.async_paste
                                      THEN m.im.next_sequence
                                      ELSE SC_SEQUENCE_INVALID
                          m0 == IF m.im.kp.async_paste
                                THEN [m EXCEPT !.im.next_sequence = @ + 1]
                                ELSE m
                          r == set_device_clipboard(m0, e, FALSE, sequence)
                      IN IF ~r.ret THEN r.m
                         ELSE forward_key(r.m, e, sequence)
            ELSE forward_key(m, e, SC_SEQUENCE_INVALID)

\* Lines 672-715: a key that is no shortcut.
process_plain_key(m, e, keycode, down, ctrl, shift, repeat) ==
    IF m.im.kp = NULL \/ m.screen.paused THEN m
    ELSE LET is_ctrl_v == ctrl /\ ~shift /\ keycode = "SDLK_v" /\ down /\ ~repeat
         IN IF m.im.clipboard_autosync /\ is_ctrl_v
            THEN IF m.im.legacy_paste THEN clipboard_paste(m, e)
                 ELSE LET sequence == IF m.im.kp.async_paste
                                      THEN m.im.next_sequence
                                      ELSE SC_SEQUENCE_INVALID
                          r == set_device_clipboard(m, e, FALSE, sequence)
                      IN IF ~r.ret THEN r.m
                         ELSE IF m.im.kp.async_paste
                         THEN forward_key(
                                  [r.m EXCEPT !.im.next_sequence = @ + 1],
                                  e, sequence)
                         ELSE forward_key(r.m, e, SC_SEQUENCE_INVALID)
            ELSE forward_key(m, e, SC_SEQUENCE_INVALID)

\* sc_input_manager_process_key without is_shortcut_key in the
\* classification of line 492.
process_key_by_mod_only(m, e) ==
    LET keycode == e.keycode
        mod == e.mod
        down == e.type = "SDL_KEYDOWN"
        ctrl == (e.mod \cap KMOD_CTRL) # {}
        shift == (e.mod \cap KMOD_SHIFT) # {}
        repeat == e.repeat
        is_shortcut == is_shortcut_mod(m.im, mod)
        m1 == [m EXCEPT !.im = key_repeat_update(m.im, keycode, mod, down, repeat)]
    IN IF is_shortcut
       THEN process_shortcut(m1, e, keycode, down, shift, repeat)
       ELSE process_plain_key(m1, e, keycode, down, ctrl, shift, repeat)

sc_input_manager_process_key(m, e) ==
    LET keycode == e.keycode
        mod == e.mod
        down == e.type = "SDL_KEYDOWN"
        ctrl == (e.mod \cap KMOD_CTRL) # {}
        shift == (e.mod \cap KMOD_SHIFT) # {}
        repeat == e.repeat
        is_shortcut == is_shortcut_mod(m.im, mod) \/ is_shortcut_key(m.im, keycode)
        m1 == [m EXCEPT !.im = key_repeat_update(m.im, keycode, mod, down, repeat)]
    IN IF is_shortcut
       THEN process_shortcut(m1, e, keycode, down, shift, repeat)
       ELSE process_plain_key(m1, e, keycode, down, ctrl, shift, repeat)

----------------------------------------------------------------------------
(* Mouse and the virtual finger *)

SDL_TOUCH_MOUSEID == -1
POINTER_ID_MOUSE == -1
POINTER_ID_GENERIC_FINGER == -2

\* The screen's sc_screen_hidpi_scale_coords: window to drawable pixels.
sc_screen_hidpi_scale_coords(scr, x, y) ==
    Point(TruncDiv(x * scr.drawable_size.width, scr.window_size.width),
          TruncDiv(y * scr.drawable_size.height, scr.window_size.height))

\* The screen's sc_screen_convert_drawable_to_frame_coords: the point
\* relative to the content rectangle, scaled to the frame.
sc_screen_convert_drawable_to_frame_coords(scr, x, y) ==
    Point(TruncDiv((x - scr.rect.x) * scr.frame_size.width, scr.rect.w),
          TruncDiv((y - scr.rect.y) * scr.frame_size.height, scr.rect.h))

sc_screen_convert_window_to_frame_coords(scr, x, y) ==
    LET d == sc_screen_hidpi_scale_coords(scr, x, y)
    IN sc_screen_convert_drawable_to_frame_coords(scr, d.x, d.y)

sc_input_manager_get_position(m, x, y) ==
    IF m.im.mp.relative_mode
    THEN [screen_size |-> [width |-> 0, height |-> 0], point |-> Point(0, 0)]
    ELSE [screen_size |-> m.screen.frame_size,
          point |-> sc_screen_convert_window_to_frame_coords(m.screen, x, y)]

simulate_virtual_finger(m, e, action, point) ==
    simulate_virtual_touch(m, e,
        IF m.im.has_secondary_click THEN POINTER_ID_VIRTUAL_MOUSE
        ELSE POINTER_ID_VIRTUAL_FINGER,
        action, point)

\* inverse_point keeping the reflected point inside the frame.
inverse_point_clamped(point, size, invert_x, invert_y) ==
    LET clamp(v) == IF v < 0 THEN 0 ELSE v
    IN [x |-> IF invert_x THEN clamp(size.width - point.x) ELSE point.x,
        y |-> IF invert_y THEN clamp(size.height - point.y) ELSE point.y]

inverse_point(point, size, invert_x, invert_y) ==
    [x |-> IF invert_x THEN size.width - point.x ELSE point.x,
     y |-> IF invert_y THEN size.height - point.y ELSE point.y]

sc_input_manager_process_mouse_motion(m, e) ==
    IF e.which = SDL_TOUCH_MOUSEID THEN m
    ELSE LET m0 == c_assert(m, m.im.mp.ops.process_mouse_motion,
                            "process_mouse_motion:752")
             m1 == call(m0, [fn |-> "process_mouse_motion",
                             position |-> sc_input_manager_get_position(m, e.x, e.y),
                             pointer_id |-> IF m.im.has_secondary_click
                                            THEN POINTER_ID_MOUSE
                                            ELSE POINTER_ID_GENERIC_FINGER])
             m2 == c_assert(m1, ~m.im.mp.relative_mode \/ ~m.im.vfinger_down,
                            "process_mouse_motion:756")
         IN IF m.im.vfinger_down
            THEN LET m3 == c_assert(m2, ~m.im.mp.relative_mode,
                                    "process_mouse_motion:759")
                     mouse == sc_screen_convert_window_to_frame_coords(
                                  m.screen, e.x, e.y)
                     vfinger == inverse_point(mouse, m.screen.frame_size,
                                    m.im.vfinger_invert_x, m.im.vfinger_invert_y)
                 IN simulate_virtual_finger(m3, e, "MOVE", vfinger)
            ELSE m2

sc_input_manager_process_touch(m, e) ==
    IF ~m.im.mp.ops.process_touch THEN m
    ELSE call(m, [fn |-> "process_touch", pointer_id |-> e.fingerId,
                  action |-> e.type])

\* sc_input_manager_get_binding looking the left button up like the right
\* one.
sc_input_manager_get_binding_left_bound(bindings, sdl_button) ==
    CASE sdl_button \in {"SDL_BUTTON_LEFT", "SDL_BUTTON_RIGHT"} ->
            bindings.right_click
      [] sdl_button = "SDL_BUTTON_MIDDLE" -> bindings.middle_click
      [] sdl_button = "SDL_BUTTON_X1" -> bindings.click4
      [] sdl_button = "SDL_BUTTON_X2" -> bindings.click5
      [] OTHER -> "SC_MOUSE_BINDING_DISABLED"

sc_input_manager_get_binding(bindings, sdl_button) ==
    CASE sdl_button = "SDL_BUTTON_LEFT" -> "SC_MOUSE_BINDING_CLICK"
      [] sdl_button = "SDL_BUTTON_RIGHT" -> bindings.right_click
      [] sdl_button = "SDL_BUTTON_MIDDLE" -> bindings.middle_click
      [] sdl_button = "SDL_BUTTON_X1" -> bindings.click4
      [] sdl_button = "SDL_BUTTON_X2" -> bindings.click5
      [] OTHER -> "SC_MOUSE_BINDING_DISABLED"

\* virtual_finger_click without the test of line 950: vfinger_down is set
\* whether or not the queue took the message.
virtual_finger_click_unchecked(m, e, down) ==
    LET keymod == e.modstate
        ctrl_pressed == (keymod \cap KMOD_CTRL) # {}
        shift_pressed == (keymod \cap KMOD_SHIFT) # {}
    IN IF e.button = "SDL_BUTTON_LEFT"
          /\ ((down /\ ~m.im.vfinger_down
               /\ ((ctrl_pressed /\ ~shift_pressed)
                   \/ (~ctrl_pressed /\ shift_pressed)))
              \/ (~down /\ m.im.vfinger_down))
       THEN LET mouse == sc_screen_convert_window_to_frame_coords(
                             m.screen, e.x, e.y)
                m1 == IF down
                      THEN [m EXCEPT
                              !.im.vfinger_invert_x = ctrl_pressed \/ shift_pressed,
                              !.im.vfinger_invert_y = ctrl_pressed]
                      ELSE m
                vfinger == inverse_point(mouse, m.screen.frame_size,
                               m1.im.vfinger_invert_x, m1.im.vfinger_invert_y)
                m2 == simulate_virtual_finger(m1, e,
                          IF down THEN "DOWN" ELSE "UP", vfinger)
            IN [m2 EXCEPT !.im.vfinger_down = down]
       ELSE m

\* virtual_finger_click choosing the inversion flags on release as well as on
\* press (lines 940-943 outside the test of down).
virtual_finger_click_relatch(m, e, down) ==
    LET keymod == e.modstate
        ctrl_pressed == (keymod \cap KMOD_CTRL) # {}
        shift_pressed == (keymod \cap KMOD_SHIFT) # {}
    IN IF e.button = "SDL_BUTTON_LEFT"
          /\ ((down /\ ~m.im.vfinger_down /\ (ctrl_pressed # shift_pressed))
              \/ (~down /\ m.im.vfinger_down))
       THEN LET mouse == sc_screen_convert_window_to_frame_coords(
                             m.screen, e.x, e.y)
                m1 == [m EXCEPT
                         !.im.vfinger_invert_x = ctrl_pressed \/ shift_pressed,
                         !.im.vfinger_invert_y = ctrl_pressed]
                vfinger == inverse_point(mouse, m.screen.frame_size,
                               m1.im.vfinger_invert_x, m1.im.vfinger_invert_y)
                m2 == simulate_virtual_finger(m1, e,
                          IF down THEN "DOWN" ELSE "UP", vfinger)
            IN IF ~push_ok(m1, e) THEN m2
               ELSE [m2 EXCEPT !.im.vfinger_down = down]
       ELSE m

\* virtual_finger_click starting the gesture with Ctrl and Shift both held
\* too (|| for the exclusive test of lines 933-934).
virtual_finger_click_any_modifier(m, e, down) ==
    LET keymod == e.modstate
        ctrl_pressed == (keymod \cap KMOD_CTRL) # {}
        shift_pressed == (keymod \cap KMOD_SHIFT) # {}
    IN IF e.button = "SDL_BUTTON_LEFT"
          /\ ((down /\ ~m.im.vfinger_down /\ (ctrl_pressed \/ shift_pressed))
              \/ (~down /\ m.im.vfinger_down))
       THEN LET mouse == sc_screen_convert_window_to_frame_coords(
                             m.screen, e.x, e.y)
                m1 == IF down
                      THEN [m EXCEPT
                              !.im.vfinger_invert_x = ctrl_pressed \/ shift_pressed,
                              !.im.vfinger_invert_y = ctrl_pressed]
                      ELSE m
                vfinger == inverse_point(mouse, m.screen.frame_size,
                               m1.im.vfinger_invert_x, m1.im.vfinger_invert_y)
                m2 == simulate_virtual_finger(m1, e,
                          IF down THEN "DOWN" ELSE "UP", vfinger)
            IN IF ~push_ok(m1, e) THEN m2
               ELSE [m2 EXCEPT !.im.vfinger_down = down]
       ELSE m

\* Lines 929-954: the virtual finger goes down or up with the left button.
\* e.modstate is what SDL_GetModState() returns.
virtual_finger_click(m, e, down) ==
    LET keymod == e.modstate
        ctrl_pressed == (keymod \cap KMOD_CTRL) # {}
        shift_pressed == (keymod \cap KMOD_SHIFT) # {}
    IN IF e.button = "SDL_BUTTON_LEFT"
          /\ ((down /\ ~m.im.vfinger_down
               /\ ((ctrl_pressed /\ ~shift_pressed)
                   \/ (~ctrl_pressed /\ shift_pressed)))
              \/ (~down /\ m.im.vfinger_down))
       THEN LET mouse == sc_screen_convert_window_to_frame_coords(
                             m.screen, e.x, e.y)
                m1 == IF down
                      THEN [m EXCEPT
                              !.im.vfinger_invert_x = ctrl_pressed \/ shift_pressed,
                              !.im.vfinger_invert_y = ctrl_pressed]
                      ELSE m
                vfinger == inverse_point(mouse, m.screen.frame_size,
                               m1.im.vfinger_invert_x, m1.im.vfinger_invert_y)
                m2 == simulate_virtual_finger(m1, e,
                          IF down THEN "DOWN" ELSE "UP", vfinger)
            IN IF ~push_ok(m1, e) THEN m2
               ELSE [m2 EXCEPT !.im.vfinger_down = down]
       ELSE m

\* forward_click without the return of lines 909-913: the virtual finger
\* follows the click in relative mode too.
forward_click_pinch_in_relative_mode(m, e, down) ==
    IF m.im.mp = NULL \/ m.screen.paused THEN m
    ELSE virtual_finger_click(
             call(c_assert(m, m.im.mp.ops.process_mouse_click,
                           "process_mouse_button:906"),
                  [fn |-> "process_mouse_click",
                   position |-> sc_input_manager_get_position(m, e.x, e.y),
                   action |-> IF down THEN "SC_ACTION_DOWN"
                              ELSE "SC_ACTION_UP",
                   button |-> e.button,
                   pointer_id |-> IF m.im.has_secondary_click
                                  THEN POINTER_ID_MOUSE
                                  ELSE POINTER_ID_GENERIC_FINGER]),
             e, down)

\* forward_click without paused in the test of line 889.
forward_click_while_paused(m, e, down) ==
    IF m.im.mp = NULL THEN m
    ELSE LET m0 == c_assert(m, m.im.mp.ops.process_mouse_click,
                            "process_mouse_button:906")
             m1 == call(m0, [fn |-> "process_mouse_click",
                             position |-> sc_input_manager_get_position(m, e.x, e.y),
                             action |-> IF down THEN "SC_ACTION_DOWN"
                                        ELSE "SC_ACTION_UP",
                             button |-> e.button,
                             pointer_id |-> IF m.im.has_secondary_click
                                            THEN POINTER_ID_MOUSE
                                            ELSE POINTER_ID_GENERIC_FINGER])
         IN IF m.im.mp.relative_mode
            THEN c_assert(m1, ~m.im.vfinger_down, "process_mouse_button:910")
            ELSE virtual_finger_click(m1, e, down)

\* Lines 889-955: the click is forwarded to the mouse processor, then the
\* virtual finger follows unless the mouse is in relative mode.
forward_click(m, e, down) ==
    IF m.im.mp = NULL \/ m.screen.paused THEN m
    ELSE LET m0 == c_assert(m, m.im.mp.ops.process_mouse_click,
                            "process_mouse_button:906")
             m1 == call(m0, [fn |-> "process_mouse_click",
                             position |-> sc_input_manager_get_position(m, e.x, e.y),
                             action |-> IF down THEN "SC_ACTION_DOWN"
                                        ELSE "SC_ACTION_UP",
                             button |-> e.button,
                             pointer_id |-> IF m.im.has_secondary_click
                                            THEN POINTER_ID_MOUSE
                                            ELSE POINTER_ID_GENERIC_FINGER])
         IN IF m.im.mp.relative_mode
            THEN c_assert(m1, ~m.im.vfinger_down, "process_mouse_button:910")
            ELSE virtual_finger_click(m1, e, down)

\* Lines 870-887 onward: the double click on the black borders.
\* click_or_resize returning early on the press only (the return of line
\* 885 inside the test of down).
click_or_resize_forward_up(m, e, down) ==
    LET video == m.screen.video
        mouse_relative_mode == m.im.mp # NULL /\ m.im.mp.relative_mode
        p == sc_screen_hidpi_scale_coords(m.screen, e.x, e.y)
        r == m.screen.rect
        outside == p.x < r.x \/ p.x >= r.x + r.w \/ p.y < r.y \/ p.y >= r.y + r.h
    IN IF video /\ ~mouse_relative_mode /\ e.button = "SDL_BUTTON_LEFT"
          /\ e.clicks = 2 /\ outside /\ down
       THEN call(m, [fn |-> "sc_screen_resize_to_fit"])
       ELSE forward_click(m, e, down)

click_or_resize(m, e, down) ==
    LET video == m.screen.video
        mouse_relative_mode == m.im.mp # NULL /\ m.im.mp.relative_mode
        p == sc_screen_hidpi_scale_coords(m.screen, e.x, e.y)
        r == m.screen.rect
        outside == p.x < r.x \/ p.x >= r.x + r.w \/ p.y < r.y \/ p.y >= r.y + r.h
    IN IF video /\ ~mouse_relative_mode /\ e.button = "SDL_BUTTON_LEFT"
          /\ e.clicks = 2 /\ outside
       THEN IF down THEN call(m, [fn |-> "sc_screen_resize_to_fit"]) ELSE m
       ELSE forward_click(m, e, down)

sc_input_manager_process_mouse_button(m, e) ==
    IF e.which = SDL_TOUCH_MOUSEID THEN m
    ELSE LET control == m.im.controller
             paused == m.screen.paused
             down == e.type = "SDL_MOUSEBUTTONDOWN"
             action == IF down THEN "SC_ACTION_DOWN" ELSE "SC_ACTION_UP"
             binding == sc_input_manager_get_binding(m.im.mouse_bindings, e.button)
         IN IF control /\ ~paused
            THEN LET m0 == c_assert(m, binding # "SC_MOUSE_BINDING_AUTO",
                                    "process_mouse_button:835")
                 IN CASE binding = "SC_MOUSE_BINDING_DISABLED" -> m0
                      [] binding = "SC_MOUSE_BINDING_BACK" ->
                           IF m.im.kp # NULL
                           THEN press_back_or_turn_screen_on(m0, e, action) ELSE m0
                      [] binding = "SC_MOUSE_BINDING_HOME" ->
                           IF m.im.kp # NULL THEN action_home(m0, e, action) ELSE m0
                      [] binding = "SC_MOUSE_BINDING_APP_SWITCH" ->
                           IF m.im.kp # NULL
                           THEN action_app_switch(m0, e, action) ELSE m0
                      [] binding = "SC_MOUSE_BINDING_EXPAND_NOTIFICATION_PANEL" ->
                           IF down
                           THEN IF e.clicks < 2
                                THEN expand_notification_panel(m0, e)
                                ELSE expand_settings_panel(m0, e)
                           ELSE m0
                      [] OTHER ->
                           click_or_resize(
                               c_assert(m0, binding = "SC_MOUSE_BINDING_CLICK",
                                        "process_mouse_button:865"),
                               e, down)
            ELSE click_or_resize(m, e, down)

sc_input_manager_process_mouse_wheel(m, e) ==
    IF ~m.im.mp.ops.process_mouse_scroll THEN m
    ELSE call(m, [fn |-> "process_mouse_scroll",
                  hscroll |-> e.preciseX, vscroll |-> e.preciseY])

sc_input_manager_process_file(m, e) ==
    call(m, [fn |-> "sc_file_pusher_request",
             action |-> IF e.is_apk THEN "SC_FILE_PUSHER_ACTION_INSTALL_APK"
                        ELSE "SC_FILE_PUSHER_ACTION_PUSH_FILE",
             file |-> e.file])

----------------------------------------------------------------------------
(* Game controller devices *)

MAX_GAME_CONTROLLERS == 4

\* The index of the first free slot, 0 for NULL.
\* find_free_game_controller_slot falling back on the first slot when
\* none is free.
find_free_game_controller_slot_or_first(i) ==
    IF \E k \in 1..MAX_GAME_CONTROLLERS : i.game_controllers[k] = NULL
    THEN CHOOSE k \in 1..MAX_GAME_CONTROLLERS :
            /\ i.game_controllers[k] = NULL
            /\ \A j \in 1..(k - 1) : i.game_controllers[j] # NULL
    ELSE 1

find_free_game_controller_slot(i) ==
    IF \E k \in 1..MAX_GAME_CONTROLLERS : i.game_controllers[k] = NULL
    THEN CHOOSE k \in 1..MAX_GAME_CONTROLLERS :
            /\ i.game_controllers[k] = NULL
            /\ \A j \in 1..(k - 1) : i.game_controllers[j] # NULL
    ELSE 0

\* The index of the first slot holding game_controller, 0 when the source
\* returns false.
free_game_controller_slot(i, game_controller) ==
    IF \E k \in 1..MAX_GAME_CONTROLLERS : i.game_controllers[k] = game_controller
    THEN CHOOSE k \in 1..MAX_GAME_CONTROLLERS :
            /\ i.game_controllers[k] = game_controller
            /\ \A j \in 1..(k - 1) : i.game_controllers[j] # game_controller
    ELSE 0

\* SDL_GameControllerFromInstanceID(id): the open controller of that
\* joystick, NULL when there is none.  The controllers open are those the
\* slots hold.
SDL_GameControllerFromInstanceID(i, id) ==
    IF \E k \in 1..MAX_GAME_CONTROLLERS : i.game_controllers[k] = [id |-> id]
    THEN [id |-> id] ELSE NULL

DeviceMsg(id, event) ==
    [type |-> "INJECT_GAME_CONTROLLER_DEVICE", id |-> id, event |-> event]

\* e.opened is what SDL_GameControllerOpen(event->which) returns.
input_manager_process_controller_device(m, e) ==
    CASE e.type = "SDL_CONTROLLERDEVICEADDED" ->
           LET freeGc == find_free_game_controller_slot(m.im) IN
           IF freeGc = 0 THEN m
           ELSE IF e.opened = NULL THEN m
           ELSE sc_controller_push_msg(
                    [m EXCEPT !.im.game_controllers[freeGc] = e.opened], e,
                    DeviceMsg(e.opened.id, 0))
      [] e.type = "SDL_CONTROLLERDEVICEREMOVED" ->
           LET id == e.which
               game_controller == SDL_GameControllerFromInstanceID(m.im, id)
               k == free_game_controller_slot(m.im, game_controller)
           IN IF k = 0 THEN m
              ELSE sc_controller_push_msg(
                       [m EXCEPT !.im.game_controllers[k] = NULL], e,
                       DeviceMsg(id, 1))
      [] OTHER -> m

----------------------------------------------------------------------------
(* The dispatcher *)

sc_input_manager_handle_event(m, e) ==
    LET control == m.im.controller
        paused == m.screen.paused
    IN CASE e.type = "SDL_TEXTINPUT" ->
              IF m.im.kp = NULL \/ paused THEN m
              ELSE sc_input_manager_process_text_input(m, e)
         [] e.type \in {"SDL_KEYDOWN", "SDL_KEYUP"} ->
              sc_input_manager_process_key(m, e)
         [] e.type = "SDL_MOUSEMOTION" ->
              IF m.im.mp = NULL \/ paused THEN m
              ELSE sc_input_manager_process_mouse_motion(m, e)
         [] e.type = "SDL_MOUSEWHEEL" ->
              IF m.im.mp = NULL \/ paused THEN m
              ELSE sc_input_manager_process_mouse_wheel(m, e)
         [] e.type \in {"SDL_MOUSEBUTTONDOWN", "SDL_MOUSEBUTTONUP"} ->
              sc_input_manager_process_mouse_button(m, e)
         [] e.type \in {"SDL_FINGERMOTION", "SDL_FINGERDOWN", "SDL_FINGERUP"} ->
              IF m.im.mp = NULL \/ paused THEN m
              ELSE sc_input_manager_process_touch(m, e)
         [] e.type = "SDL_DROPFILE" ->
              IF ~control THEN m
              ELSE sc_input_manager_process_file(m, e)
         [] e.type = "SDL_CONTROLLERAXISMOTION" ->
              handle_controller_axis(m, e)
         [] e.type \in {"SDL_CONTROLLERBUTTONDOWN", "SDL_CONTROLLERBUTTONUP"} ->
              handle_controller_button(m, e)
         [] e.type \in {"SDL_CONTROLLERDEVICEADDED", "SDL_CONTROLLERDEVICEREMOVED"} ->
              IF ~control THEN m
              ELSE input_manager_process_controller_device(m, e)
         [] OTHER -> m

----------------------------------------------------------------------------
(* Construction *)

\* sc_input_manager_init.  The struct lives in static storage, so
\* game_touchmap, which init leaves alone without a touchmap_file, is NULL.
\* garbage is what the memory of im->game_touchmap held before the call:
\* the field is assigned only when a touchmap file is given (lines 103-108).
sc_input_manager_init(params, tie, garbage) ==
    [controller |-> params.controller,
     fp |-> params.fp,
     game_controllers |-> [k \in 1..MAX_GAME_CONTROLLERS |-> NULL],
     kp |-> params.kp,
     mp |-> params.mp,
     mouse_bindings |-> params.mouse_bindings,
     has_secondary_click |-> mouse_bindings_has_secondary_click(params.mouse_bindings),
     forward_game_controllers |-> params.forward_game_controllers,
     touchmap_file |-> params.touchmap_file,
     forward_all_clicks |-> params.forward_all_clicks,
     legacy_paste |-> params.legacy_paste,
     clipboard_autosync |-> params.clipboard_autosync,
     sdl_shortcut_mods |-> to_sdl_mod(params.shortcut_mods),
     vfinger_down |-> FALSE,
     vfinger_invert_x |-> FALSE,
     vfinger_invert_y |-> FALSE,
     last_keycode |-> "SDLK_UNKNOWN",
     last_mod |-> {},
     key_repeat |-> 0,
     next_sequence |-> 1,
     game_touchmap |-> IF params.touchmap_file # NULL
                       THEN parse_touchmap_config(TouchmapFS,
                                params.touchmap_file, tie)
                       ELSE garbage]

\* The preconditions sc_input_manager_init asserts (lines 70-73).
init_asserts(params) ==
    (params.kp = NULL /\ params.mp = NULL) \/ params.controller

----------------------------------------------------------------------------
(* History of the message stream, kept for the properties *)

\* The finger ids a touchmap of TouchmapFS can hold.
FileControls(f) ==
    IF Has(f, "root") /\ Has(f.root, "mappings")
    THEN (IF Has(f.root.mappings, "button_mappings")
          THEN Len(f.root.mappings.button_mappings) ELSE 0)
         + (IF Has(f.root.mappings, "skill_casting")
            THEN Len(f.root.mappings.skill_casting) ELSE 0)
    ELSE 0

FingerIds ==
    {0} \cup UNION {SC_GPTM_BASE_FINGER_ID..(SC_GPTM_BASE_FINGER_ID
                        + FileControls(TouchmapFS[f])) : f \in DOMAIN TouchmapFS}

VirtualIds == {POINTER_ID_VIRTUAL_MOUSE, POINTER_ID_VIRTUAL_FINGER}

IsTouch(o, id, action) ==
    /\ o.msg.type = "INJECT_TOUCH_EVENT"
    /\ o.msg.pointer_id = id
    /\ o.msg.action = action

\* DOWN minus UP among the touch messages of outs for pointer id.
RECURSIVE Balance(_, _)
Balance(outs, id) ==
    IF outs = <<>> THEN 0
    ELSE (IF IsTouch(Head(outs), id, "DOWN") THEN 1
          ELSE IF IsTouch(Head(outs), id, "UP") THEN -1 ELSE 0)
         + Balance(Tail(outs), id)

\* The gesture of pointer id after the accepted messages of outs: "idle"
\* (no finger down), "down", or "bad" once a DOWN followed a DOWN or an UP
\* came without a DOWN.
RECURSIVE Gesture(_, _, _)
Gesture(st, outs, id) ==
    IF outs = <<>> THEN st
    ELSE LET o == Head(outs)
             nxt == IF ~o.ok THEN st
                    ELSE IF IsTouch(o, id, "DOWN")
                    THEN (IF st = "idle" THEN "down" ELSE "bad")
                    ELSE IF IsTouch(o, id, "UP")
                    THEN (IF st = "down" THEN "idle" ELSE "bad")
                    ELSE st
         IN Gesture(nxt, Tail(outs), id)

\* Where the MOVE messages of finger id fall among outs: "idle" before a
\* DOWN and after an UP, "down" between a DOWN and the next UP, "bad" once
\* a MOVE was handed to the queue while idle.
RECURSIVE Moves(_, _, _)
Moves(st, outs, id) ==
    IF outs = <<>> THEN st
    ELSE LET o == Head(outs)
             nxt == IF st = "bad" THEN st
                    ELSE IF IsTouch(o, id, "DOWN") THEN "down"
                    ELSE IF IsTouch(o, id, "UP") THEN "idle"
                    ELSE IF IsTouch(o, id, "MOVE") /\ st = "idle" THEN "bad"
                    ELSE st
         IN Moves(nxt, Tail(outs), id)

TouchmapChanged(cs) ==
    \E k \in 1..Len(cs) : cs[k].fn \in {"parse_touchmap_config", "free_touchmap"}

\* hist.handed[id]: DOWN minus UP handed to the queue for finger id since
\* the touchmap was loaded; hist.vf[id]: the gesture of virtual pointer id
\* in the accepted stream; hist.moves[id]: where the MOVE messages of
\* finger id fell in the stream handed to the queue since init.
HistInit ==
    [handed |-> [id \in FingerIds |-> 0],
     vf |-> [id \in VirtualIds |-> "idle"],
     moves |-> [id \in FingerIds |-> "idle"]]

HistUpdate(h, m) ==
    [handed |-> [id \in FingerIds |->
                    IF TouchmapChanged(m.calls) THEN 0
                    ELSE h.handed[id] + Balance(m.out, id)],
     vf |-> [id \in VirtualIds |-> Gesture(h.vf[id], m.out, id)],
     moves |-> [id \in FingerIds |-> Moves(h.moves[id], m.out, id)]]

----------------------------------------------------------------------------
(* Bounds of the model *)

\* key_repeat and next_sequence grow without bound in the source.
MaxKeyRepeat == 2
MaxSequence == 3

\* The largest coordinate and frame dimension SpecPoint draws.
MaxCoord == 4

----------------------------------------------------------------------------
(* The step: one event is taken from the queue and handled *)

NoEvent == [type |-> "none"]

Handle(e) ==
    LET m == sc_input_manager_handle_event(
                 [im |-> im, screen |-> screen, out |-> <<>>, calls |-> <<>>], e)
    IN /\ m.im.key_repeat <= MaxKeyRepeat
       /\ m.im.next_sequence <= MaxSequence
       /\ im' = m.im
       /\ screen' = m.screen
       /\ out' = m.out
       /\ calls' = m.calls
       /\ ev' = e
       /\ hist' = HistUpdate(hist, m)

\* The screen: a 400x600 frame shown in a window of 500x600 pixels.
ScreenInit(video) ==
    [paused |-> FALSE,
     video |-> video,
     frame_size |-> [width |-> 400, height |-> 600],
     window_size |-> [width |-> 500, height |-> 600],
     drawable_size |-> [width |-> 500, height |-> 600],
     rect |-> [x |-> 0, y |-> 0, w |-> 400, h |-> 600],
     fps_counter_started |-> FALSE]

KeyProcessor(process_text, async_paste, hid) ==
    [ops |-> [process_key |-> TRUE, process_text |-> process_text],
     async_paste |-> async_paste, hid |-> hid]

MouseProcessor(relative_mode) ==
    [ops |-> [process_mouse_motion |-> TRUE, process_mouse_click |-> TRUE,
              process_mouse_scroll |-> TRUE, process_touch |-> TRUE],
     relative_mode |-> relative_mode]

DefaultBindings ==
    [right_click |-> "SC_MOUSE_BINDING_BACK",
     middle_click |-> "SC_MOUSE_BINDING_HOME",
     click4 |-> "SC_MOUSE_BINDING_APP_SWITCH",
     click5 |-> "SC_MOUSE_BINDING_EXPAND_NOTIFICATION_PANEL"]

DefaultParams ==
    [controller |-> TRUE,
     fp |-> TRUE,
     kp |-> KeyProcessor(TRUE, TRUE, FALSE),
     mp |-> MouseProcessor(FALSE),
     mouse_bindings |-> DefaultBindings,
     forward_game_controllers |-> FALSE,
     touchmap_file |-> NULL,
     forward_all_clicks |-> FALSE,
     legacy_paste |-> FALSE,
     clipboard_autosync |-> TRUE,
     shortcut_mods |-> {"SC_SHORTCUT_MOD_LALT"}]

InitWith(params, video, tie) ==
    /\ init_asserts(params)
    /\ \E garbage \in Indeterminate :
          im = sc_input_manager_init(params, tie, garbage)
    /\ screen = ScreenInit(video)
    /\ ev = NoEvent
    /\ out = <<>>
    /\ calls = <<>>
    /\ hist = HistInit

----------------------------------------------------------------------------
(* Events *)

NoClip == [text |-> ""]

KeyEvent(type, keycode, mod, repeat, acc, clip, dialog, tie) ==
    [type |-> type, keycode |-> keycode, mod |-> mod, repeat |-> repeat,
     acc |-> acc, clip |-> clip, strdup_ok |-> TRUE, dialog |-> dialog,
     tie |-> tie]

AxisEvent(axis, value, acc) ==
    [type |-> "SDL_CONTROLLERAXISMOTION", which |-> 0, axis |-> axis,
     value |-> value, acc |-> acc]

ButtonEvent(button, state, acc) ==
    [type |-> IF state = 1 THEN "SDL_CONTROLLERBUTTONDOWN"
              ELSE "SDL_CONTROLLERBUTTONUP",
     which |-> 0, button |-> button, state |-> state, acc |-> acc]

MouseButtonEvent(type, button, x, y, clicks, modstate, acc) ==
    [type |-> type, which |-> 0, button |-> button, x |-> x, y |-> y,
     clicks |-> clicks, modstate |-> modstate, acc |-> acc]

MouseMotionEvent(x, y, acc) ==
    [type |-> "SDL_MOUSEMOTION", which |-> 0, x |-> x, y |-> y, acc |-> acc]

TextInputEvent(text, modstate) ==
    [type |-> "SDL_TEXTINPUT", text |-> text, modstate |-> modstate]

----------------------------------------------------------------------------
(* SpecPad: a gamepad drives the touchmap loaded at init or through the    *)
(* file dialog of shortcut t.                                              *)

PadFiles == {[path |-> "ok_json"], [path |-> "partial_json"]}

PadAxisValues == {0, 20000}

PadButtons == {SDL_CONTROLLER_BUTTON_A, SDL_CONTROLLER_BUTTON_Y}

PadAxisEvents ==
    {AxisEvent(a, v, <<TRUE, TRUE>>) :
        a \in (SDL_CONTROLLER_AXIS_LEFTX..SDL_CONTROLLER_AXIS_TRIGGERRIGHT)
              \ {SDL_CONTROLLER_AXIS_TRIGGERLEFT},
        v \in PadAxisValues}

PadButtonEvents ==
    {ButtonEvent(b, st, <<acc>>) :
        b \in PadButtons, st \in {0, 1}, acc \in BOOLEAN}

PadKeyEvents ==
    {KeyEvent("SDL_KEYDOWN", "SDLK_t", {"KMOD_LALT"}, FALSE, <<TRUE>>, NoClip,
              d, FALSE) :
        d \in {NULL, [path |-> "unsorted_json"], [path |-> "bad_json"]}}
    \cup {KeyEvent("SDL_KEYDOWN", "SDLK_t", {"KMOD_LALT", "KMOD_LSHIFT"}, FALSE,
                   <<TRUE>>, NoClip, NULL, FALSE)}

InitPad ==
    \E f \in PadFiles, tie \in BOOLEAN :
        InitWith([DefaultParams EXCEPT !.touchmap_file = f], TRUE, tie)

ControllerAxis(E) ==
    \E e \in E : e.type = "SDL_CONTROLLERAXISMOTION" /\ Handle(e)

ControllerButton(E) ==
    \E e \in E :
        /\ e.type \in {"SDL_CONTROLLERBUTTONDOWN", "SDL_CONTROLLERBUTTONUP"}
        /\ Handle(e)

Key(E) == \E e \in E : e.type \in {"SDL_KEYDOWN", "SDL_KEYUP"} /\ Handle(e)

NextPad ==
    \/ ControllerAxis(PadAxisEvents)
    \/ ControllerButton(PadButtonEvents)
    \/ Key(PadKeyEvents)

SpecPad == InitPad /\ [][NextPad]_vars

----------------------------------------------------------------------------
(* SpecRoute: the gamepad events of SpecPad with forward_game_controllers  *)
(* set or clear at start, with and without a touchmap file.                *)

InitRoute ==
    \E f \in PadFiles \cup {NULL}, fgc \in BOOLEAN :
        InitWith([DefaultParams EXCEPT !.touchmap_file = f,
                                       !.forward_game_controllers = fgc],
                 TRUE, FALSE)

NextRoute ==
    \/ ControllerAxis(PadAxisEvents)
    \/ ControllerButton(PadButtonEvents)

SpecRoute == InitRoute /\ [][NextRoute]_vars

----------------------------------------------------------------------------
(* SpecTrigger: the two triggers over the range of an axis value, around   *)
(* the 20% threshold on both sides of zero, and the A button.              *)

TriggerAxes ==
    {SDL_CONTROLLER_AXIS_TRIGGERLEFT, SDL_CONTROLLER_AXIS_TRIGGERRIGHT}

TriggerValues == {0, 6553, 6554, 32767, -6553, -6554, -32768}

TriggerAxisEvents ==
    {AxisEvent(a, v, <<acc>>) :
        a \in TriggerAxes, v \in TriggerValues, acc \in BOOLEAN}

TriggerButtonEvents ==
    {ButtonEvent(SDL_CONTROLLER_BUTTON_A, st, <<TRUE>>) : st \in {0, 1}}

InitTrigger ==
    InitWith([DefaultParams EXCEPT !.touchmap_file = [path |-> "ok_json"]],
             TRUE, FALSE)

NextTrigger ==
    \/ ControllerAxis(TriggerAxisEvents)
    \/ ControllerButton(TriggerButtonEvents)

SpecTrigger == InitTrigger /\ [][NextTrigger]_vars

----------------------------------------------------------------------------
(* SpecSkill: a touchmap with two skills; the triggers put them down and   *)
(* up, the right stick aims them, the left stick moves the walk control.   *)

SkillAxisValues == {0, 20000, -32768}

SkillAxisEvents ==
    {AxisEvent(a, v, <<TRUE>>) :
        a \in {SDL_CONTROLLER_AXIS_RIGHTX, SDL_CONTROLLER_AXIS_RIGHTY},
        v \in SkillAxisValues}
    \cup {AxisEvent(SDL_CONTROLLER_AXIS_RIGHTY, 20000, <<FALSE, TRUE>>)}
    \cup {AxisEvent(a, v, <<TRUE>>) : a \in TriggerAxes, v \in {0, 32767}}
    \cup {AxisEvent(SDL_CONTROLLER_AXIS_LEFTX, 20000, <<TRUE, TRUE>>)}

InitSkill ==
    InitWith([DefaultParams EXCEPT !.touchmap_file = [path |-> "skills_json"]],
             TRUE, FALSE)

NextSkill ==
    \/ ControllerAxis(SkillAxisEvents)
    \/ ControllerButton(TriggerButtonEvents)

SpecSkill == InitSkill /\ [][NextSkill]_vars

----------------------------------------------------------------------------
(* SpecDevice: game controllers plugged in and out, one more than there    *)
(* are slots.  SDL announces a device once per connection, so a device     *)
(* that is added is not one the slots hold.                                *)

DeviceIds == 1..(MAX_GAME_CONTROLLERS + 1)

DeviceAddedEvent(which, opened, acc) ==
    [type |-> "SDL_CONTROLLERDEVICEADDED", which |-> which,
     opened |-> opened, acc |-> acc]

DeviceRemovedEvent(which, acc) ==
    [type |-> "SDL_CONTROLLERDEVICEREMOVED", which |-> which, acc |-> acc]

DeviceEvents ==
    {DeviceAddedEvent(0, o, <<acc>>) :
        o \in {NULL} \cup {[id |-> d] : d \in DeviceIds}, acc \in BOOLEAN}
    \cup {DeviceRemovedEvent(d, <<acc>>) : d \in DeviceIds, acc \in BOOLEAN}

ControllerDevice(E) ==
    \E e \in E :
        /\ e.type \in {"SDL_CONTROLLERDEVICEADDED", "SDL_CONTROLLERDEVICEREMOVED"}
        /\ e.type = "SDL_CONTROLLERDEVICEADDED" =>
              \/ e.opened = NULL
              \/ \A k \in 1..MAX_GAME_CONTROLLERS :
                    im.game_controllers[k] # e.opened
        /\ Handle(e)

InitDevice == InitWith(DefaultParams, TRUE, FALSE)

NextDevice == ControllerDevice(DeviceEvents)

SpecDevice == InitDevice /\ [][NextDevice]_vars

----------------------------------------------------------------------------
(* SpecMouse: clicks with and without Ctrl or Shift, mouse motion and the  *)
(* pause shortcut, with the mouse in absolute or in relative mode.         *)

AllClickBindings ==
    [right_click |-> "SC_MOUSE_BINDING_CLICK",
     middle_click |-> "SC_MOUSE_BINDING_CLICK",
     click4 |-> "SC_MOUSE_BINDING_CLICK",
     click5 |-> "SC_MOUSE_BINDING_CLICK"]

MouseModStates == {{}, {"KMOD_LCTRL"}, {"KMOD_RSHIFT"}, {"KMOD_LCTRL", "KMOD_LSHIFT"}}

MouseButtonEvents ==
    {MouseButtonEvent(t, "SDL_BUTTON_LEFT", 100, 150, 1, ms, <<acc>>) :
        t \in {"SDL_MOUSEBUTTONDOWN", "SDL_MOUSEBUTTONUP"},
        ms \in MouseModStates, acc \in BOOLEAN}
    \cup {MouseButtonEvent("SDL_MOUSEBUTTONDOWN", "SDL_BUTTON_RIGHT", 100, 150,
                           1, {"KMOD_LCTRL"}, <<TRUE, TRUE>>)}

MouseMotionEvents ==
    {MouseMotionEvent(x, 300, <<acc>>) : x \in {100, 250}, acc \in BOOLEAN}

MouseKeyEvents ==
    {KeyEvent("SDL_KEYDOWN", "SDLK_z", md, FALSE, <<TRUE>>, NoClip, NULL, FALSE) :
        md \in {{"KMOD_LALT"}, {"KMOD_LALT", "KMOD_LSHIFT"}}}

InitMouse ==
    \E rel \in BOOLEAN, mb \in {DefaultBindings, AllClickBindings} :
        InitWith([DefaultParams EXCEPT !.mp = MouseProcessor(rel),
                                       !.mouse_bindings = mb], TRUE, FALSE)

MouseButton(E) ==
    \E e \in E :
        /\ e.type \in {"SDL_MOUSEBUTTONDOWN", "SDL_MOUSEBUTTONUP"}
        /\ Handle(e)

MouseMotion(E) == \E e \in E : e.type = "SDL_MOUSEMOTION" /\ Handle(e)

NextMouse ==
    \/ MouseButton(MouseButtonEvents)
    \/ MouseMotion(MouseMotionEvents)
    \/ Key(MouseKeyEvents)

SpecMouse == InitMouse /\ [][NextMouse]_vars

----------------------------------------------------------------------------
(* SpecClick: every mouse button, single and double clicks inside the      *)
(* frame and on the black border, with the default bindings, with every    *)
(* button bound to a click and with the right button disabled; with and    *)
(* without video, in absolute and in relative mode, paused and not.        *)

DisabledRightBindings ==
    [DefaultBindings EXCEPT !.right_click = "SC_MOUSE_BINDING_DISABLED"]

ClickButtonEvents ==
    {MouseButtonEvent(t, "SDL_BUTTON_LEFT", x, 150, c, ms, <<TRUE, TRUE>>) :
        t \in {"SDL_MOUSEBUTTONDOWN", "SDL_MOUSEBUTTONUP"},
        x \in {100, 450}, c \in {1, 2}, ms \in {{}, {"KMOD_LCTRL"}}}
    \cup
    {MouseButtonEvent(t, b, 450, 150, c, {"KMOD_LCTRL"}, <<TRUE, TRUE>>) :
        t \in {"SDL_MOUSEBUTTONDOWN", "SDL_MOUSEBUTTONUP"},
        b \in {"SDL_BUTTON_RIGHT", "SDL_BUTTON_MIDDLE", "SDL_BUTTON_X1",
               "SDL_BUTTON_X2", "SDL_BUTTON_6"},
        c \in {1, 2}}
    \cup
    {[MouseButtonEvent(t, "SDL_BUTTON_LEFT", 100, 150, 1, {"KMOD_LCTRL"},
                       <<TRUE, TRUE>>) EXCEPT !.which = SDL_TOUCH_MOUSEID] :
        t \in {"SDL_MOUSEBUTTONDOWN", "SDL_MOUSEBUTTONUP"}}

InitClick ==
    \E rel \in BOOLEAN, video \in BOOLEAN,
       mb \in {DefaultBindings, AllClickBindings, DisabledRightBindings} :
        InitWith([DefaultParams EXCEPT !.mp = MouseProcessor(rel),
                                       !.mouse_bindings = mb], video, FALSE)

NextClick ==
    \/ MouseButton(ClickButtonEvents)
    \/ Key(MouseKeyEvents)

SpecClick == InitClick /\ [][NextClick]_vars

----------------------------------------------------------------------------
(* SpecGate: one event of every kind the dispatcher knows, with and        *)
(* without a controller, with and without a mouse processor, paused and    *)
(* not; a touchmap file is given in every case.                            *)

GateParams ==
    {[DefaultParams EXCEPT !.touchmap_file = [path |-> "ok_json"],
                           !.forward_game_controllers = fgc] :
        fgc \in BOOLEAN}
    \cup {[DefaultParams EXCEPT !.touchmap_file = [path |-> "ok_json"],
                                !.mp = NULL],
          [DefaultParams EXCEPT !.touchmap_file = [path |-> "ok_json"],
                                !.mp = NULL, !.kp = NULL,
                                !.controller = FALSE],
          [DefaultParams EXCEPT !.touchmap_file = [path |-> "ok_json"],
                                !.mp = NULL, !.kp = NULL,
                                !.controller = FALSE,
                                !.forward_game_controllers = TRUE]}

MouseWheelEvent(preciseX, preciseY, acc) ==
    [type |-> "SDL_MOUSEWHEEL", which |-> 0, preciseX |-> preciseX,
     preciseY |-> preciseY, acc |-> acc]

TouchFingerEvent(type, fingerId, acc) ==
    [type |-> type, fingerId |-> fingerId, acc |-> acc]

DropEvent(file, is_apk, acc) ==
    [type |-> "SDL_DROPFILE", file |-> file, is_apk |-> is_apk, acc |-> acc]

GateMouseEvents ==
    {MouseButtonEvent(t, "SDL_BUTTON_LEFT", 100, 150, 1, {"KMOD_LCTRL"},
                      <<TRUE, TRUE>>) :
        t \in {"SDL_MOUSEBUTTONDOWN", "SDL_MOUSEBUTTONUP"}}

GateMotionEvents == {MouseMotionEvent(250, 300, <<TRUE, TRUE>>)}

GateWheelEvents == {MouseWheelEvent(0, 1, <<TRUE>>)}

GateFingerEvents ==
    {TouchFingerEvent(t, 1, <<TRUE>>) :
        t \in {"SDL_FINGERDOWN", "SDL_FINGERMOTION", "SDL_FINGERUP"}}

GateDropEvents == {DropEvent("a.apk", TRUE, <<TRUE>>)}

GateAxisEvents ==
    {AxisEvent(SDL_CONTROLLER_AXIS_LEFTX, 20000, <<TRUE, TRUE>>)}

GateButtonEvents ==
    {ButtonEvent(SDL_CONTROLLER_BUTTON_A, st, <<TRUE>>) : st \in {0, 1}}

GateDeviceEvents ==
    {DeviceAddedEvent(0, [id |-> 1], <<TRUE>>), DeviceRemovedEvent(1, <<TRUE>>)}

\* The events the dispatcher hands on only with a mouse processor and the
\* screen not paused (lines 1211-1236).
MouseProcessorInput(E) ==
    \E e \in E :
        /\ e.type \in {"SDL_MOUSEMOTION", "SDL_MOUSEWHEEL", "SDL_FINGERMOTION",
                        "SDL_FINGERDOWN", "SDL_FINGERUP"}
        /\ Handle(e)

\* The events the dispatcher hands on only with a controller (lines
\* 1237-1293).
ControllerInput(E) ==
    \E e \in E :
        /\ e.type \in {"SDL_DROPFILE", "SDL_CONTROLLERAXISMOTION",
                        "SDL_CONTROLLERBUTTONDOWN", "SDL_CONTROLLERBUTTONUP",
                        "SDL_CONTROLLERDEVICEADDED",
                        "SDL_CONTROLLERDEVICEREMOVED"}
        /\ e.type = "SDL_CONTROLLERDEVICEADDED" =>
              \/ e.opened = NULL
              \/ \A k \in 1..MAX_GAME_CONTROLLERS :
                    im.game_controllers[k] # e.opened
        /\ Handle(e)

InitGate == \E params \in GateParams : InitWith(params, TRUE, FALSE)

NextGate ==
    \/ MouseButton(GateMouseEvents)
    \/ MouseProcessorInput(GateMotionEvents \cup GateWheelEvents
                             \cup GateFingerEvents)
    \/ ControllerInput(GateDropEvents \cup GateAxisEvents
                         \cup GateButtonEvents \cup GateDeviceEvents)
    \/ Key(MouseKeyEvents)

SpecGate == InitGate /\ [][NextGate]_vars

----------------------------------------------------------------------------
(* SpecKey: shortcut keys, plain keys and text input, with a key processor *)
(* that takes text, one that does not, and without control.                *)

PressEvent(type, keycode, mod, repeat) ==
    KeyEvent(type, keycode, mod, repeat, <<TRUE>>, NoClip, NULL, FALSE)

KeyStrokes(keycode, mod) ==
    {PressEvent("SDL_KEYDOWN", keycode, mod, FALSE),
     PressEvent("SDL_KEYDOWN", keycode, mod, TRUE),
     PressEvent("SDL_KEYUP", keycode, mod, FALSE)}

KeyKeyEvents ==
    KeyStrokes("SDLK_n", {"KMOD_LALT"})
    \cup KeyStrokes("SDLK_n", {"KMOD_LALT", "KMOD_LSHIFT"})
    \cup KeyStrokes("SDLK_a", {})
    \cup {KeyEvent("SDL_KEYDOWN", "SDLK_n", {"KMOD_LALT"}, FALSE, <<FALSE>>,
                   NoClip, NULL, FALSE),
          PressEvent("SDL_KEYDOWN", "SDLK_n", {}, FALSE),
          PressEvent("SDL_KEYDOWN", "SDLK_q", {"KMOD_LALT"}, FALSE),
          PressEvent("SDL_KEYUP", "SDLK_q", {"KMOD_LALT"}, FALSE),
          PressEvent("SDL_KEYDOWN", "SDLK_LALT", {"KMOD_LALT"}, FALSE),
          PressEvent("SDL_KEYUP", "SDLK_LALT", {}, FALSE),
          PressEvent("SDL_KEYDOWN", "SDLK_z", {"KMOD_LALT"}, FALSE),
          PressEvent("SDL_KEYDOWN", "SDLK_z", {"KMOD_LALT", "KMOD_LSHIFT"}, FALSE)}

KeyTextEvents ==
    {TextInputEvent("a", ms) : ms \in {{}, {"KMOD_LALT"}, {"KMOD_LSHIFT"}}}

KeyParams ==
    {DefaultParams,
     [DefaultParams EXCEPT !.kp = KeyProcessor(FALSE, TRUE, FALSE)],
     [DefaultParams EXCEPT !.controller = FALSE, !.kp = NULL, !.mp = NULL]}

InitKey == \E params \in KeyParams : InitWith(params, TRUE, FALSE)

TextInput(E) == \E e \in E : e.type = "SDL_TEXTINPUT" /\ Handle(e)

NextKey ==
    \/ Key(KeyKeyEvents)
    \/ TextInput(KeyTextEvents)

SpecKey == InitKey /\ [][NextKey]_vars

----------------------------------------------------------------------------
(* SpecPaste: Ctrl+v with the clipboard policies, a clipboard that may be  *)
(* unreadable and a queue that may be full.                                *)

ClipText == [text |-> "abc"]

PasteKeyEvents ==
    {KeyEvent("SDL_KEYDOWN", "SDLK_v", {"KMOD_LCTRL"}, FALSE, <<acc>>, clip,
              NULL, FALSE) : acc \in BOOLEAN, clip \in {NULL, ClipText}}
    \cup {[KeyEvent("SDL_KEYDOWN", "SDLK_v", {"KMOD_RCTRL"}, FALSE, <<TRUE>>,
                    ClipText, NULL, FALSE) EXCEPT !.strdup_ok = FALSE],
          KeyEvent("SDL_KEYDOWN", "SDLK_v", {"KMOD_LCTRL"}, TRUE, <<TRUE>>,
                   ClipText, NULL, FALSE),
          KeyEvent("SDL_KEYUP", "SDLK_v", {"KMOD_LCTRL"}, FALSE, <<TRUE>>,
                   ClipText, NULL, FALSE),
          KeyEvent("SDL_KEYDOWN", "SDLK_v", {"KMOD_LCTRL", "KMOD_LSHIFT"}, FALSE,
                   <<TRUE>>, ClipText, NULL, FALSE),
          KeyEvent("SDL_KEYDOWN", "SDLK_v", {"KMOD_LALT"}, FALSE, <<TRUE>>,
                   ClipText, NULL, FALSE),
          PressEvent("SDL_KEYDOWN", "SDLK_a", {}, FALSE),
          PressEvent("SDL_KEYDOWN", "SDLK_z", {"KMOD_LALT"}, FALSE),
          PressEvent("SDL_KEYDOWN", "SDLK_z", {"KMOD_LALT", "KMOD_LSHIFT"}, FALSE)}

PasteParams ==
    {[DefaultParams EXCEPT !.kp = KeyProcessor(TRUE, async, FALSE)] :
        async \in BOOLEAN}
    \cup {[DefaultParams EXCEPT !.legacy_paste = TRUE],
          [DefaultParams EXCEPT !.clipboard_autosync = FALSE]}

InitPaste == \E params \in PasteParams : InitWith(params, TRUE, FALSE)

NextPaste == Key(PasteKeyEvents)

SpecPaste == InitPaste /\ [][NextPaste]_vars

----------------------------------------------------------------------------
(* SpecLegacy: the v key with legacy_paste set, as a shortcut and as       *)
(* Ctrl+v, with a clipboard that is unreadable, empty or holds a text,     *)
(* with and without clipboard_autosync, paused and not.                    *)

LegacyKeyEvents ==
    {KeyEvent("SDL_KEYDOWN", "SDLK_v", md, FALSE, <<acc>>, clip, NULL, FALSE) :
        md \in {{"KMOD_LCTRL"}, {"KMOD_LALT"}, {"KMOD_LALT", "KMOD_LSHIFT"}},
        acc \in BOOLEAN, clip \in {NULL, NoClip, ClipText}}
    \cup {[KeyEvent("SDL_KEYDOWN", "SDLK_v", md, FALSE, <<TRUE>>, ClipText,
                    NULL, FALSE) EXCEPT !.strdup_ok = FALSE] :
             md \in {{"KMOD_LCTRL"}, {"KMOD_LALT"}}}
    \cup {KeyEvent(t, "SDLK_v", md, r, <<TRUE>>, ClipText, NULL, FALSE) :
             t \in {"SDL_KEYDOWN", "SDL_KEYUP"}, r \in BOOLEAN,
             md \in {{"KMOD_LCTRL"}, {"KMOD_LALT"},
                     {"KMOD_LCTRL", "KMOD_LSHIFT"}}}
    \cup {PressEvent("SDL_KEYDOWN", "SDLK_z", {"KMOD_LALT"}, FALSE),
          PressEvent("SDL_KEYDOWN", "SDLK_z", {"KMOD_LALT", "KMOD_LSHIFT"}, FALSE)}

LegacyParams ==
    {[DefaultParams EXCEPT !.legacy_paste = TRUE,
                           !.clipboard_autosync = autosync,
                           !.kp = KeyProcessor(TRUE, async, FALSE)] :
        autosync \in BOOLEAN, async \in BOOLEAN}

InitLegacy == \E params \in LegacyParams : InitWith(params, TRUE, FALSE)

NextLegacy == Key(LegacyKeyEvents)

SpecLegacy == InitLegacy /\ [][NextLegacy]_vars

----------------------------------------------------------------------------
(* SpecPoint: inverse_point applied twice to a point, a frame size and a   *)
(* pair of flags drawn at the start; the results are recorded in calls.    *)

PointCoords == (-2)..MaxCoord

FrameSizes ==
    {[width |-> w, height |-> h] : w \in {0, 2, MaxCoord}, h \in {1, 3}}

InitPoint ==
    \E px, py \in PointCoords, size \in FrameSizes, ix, iy \in BOOLEAN :
        /\ \E garbage \in Indeterminate :
              im = sc_input_manager_init(DefaultParams, FALSE, garbage)
        /\ screen = [ScreenInit(TRUE) EXCEPT !.frame_size = size]
        /\ ev = [type |-> "point", point |-> Point(px, py),
                 invert_x |-> ix, invert_y |-> iy]
        /\ out = <<>>
        /\ calls = <<>>
        /\ hist = HistInit

Reflect ==
    /\ Len(calls) < 2
    /\ calls' = Append(calls,
           [fn |-> "inverse_point",
            ret |-> inverse_point(
                       IF calls = <<>> THEN ev.point ELSE calls[Len(calls)].ret,
                       screen.frame_size, ev.invert_x, ev.invert_y)])
    /\ UNCHANGED <<im, screen, ev, out, hist>>

NextPoint == Reflect

SpecPoint == InitPoint /\ [][NextPoint]_vars

----------------------------------------------------------------------------
(* SpecWalk: the left stick alone, with values that put the walk control   *)
(* at its center, on the edge of the dead zone and far outside it.         *)

WalkAxisValues == {0, 3277, -2000, 20000}

WalkAxisEvents ==
    {AxisEvent(a, v, <<acc, TRUE>>) :
        a \in {SDL_CONTROLLER_AXIS_LEFTX, SDL_CONTROLLER_AXIS_LEFTY},
        v \in WalkAxisValues, acc \in BOOLEAN}

InitWalk ==
    \E f \in {[path |-> "ok_json"], [path |-> "partial_json"]} :
        InitWith([DefaultParams EXCEPT !.touchmap_file = f], TRUE, FALSE)

NextWalk == ControllerAxis(WalkAxisEvents)

SpecWalk == InitWalk /\ [][NextWalk]_vars

----------------------------------------------------------------------------
(* Properties of the touchmap engine, under SpecPad *)

\* The controls of a touchmap: the walk control and every touch button.
Controls(map) == {map.walk} \cup {map.buttons[i] : i \in 1..map.button_cnt}

\* C1: for every control C of the loaded touchmap, the DOWN touch messages
\* handed to the queue for C.finger_id since the load are as many as the UP
\* messages handed for it, plus one exactly when C.touch_down is set.
C1_TouchBalance ==
    im.game_touchmap # NULL =>
        \A C \in Controls(im.game_touchmap) :
            hist.handed[C.finger_id] = (IF C.touch_down THEN 1 ELSE 0)

Sorted(buttons) ==
    \A i, j \in 1..Len(buttons) :
        i < j => buttons[i].button <= buttons[j].button

\* C6: whenever a touchmap is loaded its button array is sorted ascending by
\* button code, and the binary search of the button dispatch finds an entry
\* for every code some entry carries.
C6_SortedButtons ==
    im.game_touchmap # NULL =>
        LET map == im.game_touchmap IN
        /\ Sorted(map.buttons)
        /\ \A i \in 1..map.button_cnt :
               LET k == bsearch([button |-> map.buttons[i].button],
                                map.buttons, map.button_cnt)
               IN k # 0 /\ map.buttons[k].button = map.buttons[i].button

\* A touchmap whose file lists Y before A is loaded, and button Y, moved
\* behind A by the sort, was found by a press.
C6_Witness ==
    /\ im.game_touchmap # NULL
    /\ im.game_touchmap.button_cnt = 3
    /\ im.game_touchmap.buttons[1].button = SDL_CONTROLLER_BUTTON_A
    /\ im.game_touchmap.buttons[2].button = SDL_CONTROLLER_BUTTON_Y
    /\ im.game_touchmap.buttons[2].touch_down

----------------------------------------------------------------------------
(* Properties of the virtual finger, under SpecMouse *)

\* The pointer id the virtual finger uses (lines 408-417).
VFingerId ==
    IF im.has_secondary_click THEN POINTER_ID_VIRTUAL_MOUSE
    ELSE POINTER_ID_VIRTUAL_FINGER

VFingerMessages ==
    {k \in 1..Len(out) :
        /\ out[k].msg.type = "INJECT_TOUCH_EVENT"
        /\ out[k].msg.pointer_id \in VirtualIds}

\* C2: in the stream of messages the queue accepted, the virtual finger's
\* DOWN and UP strictly alternate, starting with DOWN; vfinger_down tells
\* which of the two came last.
C2_VFingerAlternates ==
    /\ hist.vf[VFingerId] = (IF im.vfinger_down THEN "down" ELSE "idle")
    /\ \A id \in VirtualIds \ {VFingerId} : hist.vf[id] = "idle"

\* The queue refused a DOWN of the virtual finger, or an UP while it was
\* down.
C2_Witness ==
    /\ ev.type \in {"SDL_MOUSEBUTTONDOWN", "SDL_MOUSEBUTTONUP"}
    /\ \E k \in VFingerMessages :
          /\ ~out[k].ok
          /\ out[k].msg.action = "DOWN" \/ im.vfinger_down

\* C3: vfinger_down implies the mouse is not in relative mode; in relative
\* mode no event sets vfinger_down, hands a virtual finger message to the
\* queue or trips one of the assertions guarding it.
C3_NoVFingerInRelativeMode ==
    (im.mp # NULL /\ im.mp.relative_mode) =>
        /\ ~im.vfinger_down
        /\ VFingerMessages = {}
        /\ \A k \in 1..Len(calls) : calls[k].fn # "assert_failed"

\* In relative mode a left click with Ctrl held reached the mouse processor.
C3_Witness ==
    /\ im.mp # NULL /\ im.mp.relative_mode
    /\ ev.type = "SDL_MOUSEBUTTONDOWN"
    /\ ev.button = "SDL_BUTTON_LEFT"
    /\ ev.modstate = {"KMOD_LCTRL"}
    /\ \E k \in 1..Len(calls) : calls[k].fn = "process_mouse_click"

----------------------------------------------------------------------------
(* Properties of the keyboard, under SpecKey *)

IsKey(e) == e.type \in {"SDL_KEYDOWN", "SDL_KEYUP"}

\* The classification of line 492, for the manager as it is now.
IsShortcut(e) == is_shortcut_mod(im, e.mod) \/ is_shortcut_key(im, e.keycode)

\* The keys the switch of lines 505-670 has a case for.
ShortcutTable ==
    {"SDLK_h", "SDLK_b", "SDLK_BACKSPACE", "SDLK_s", "SDLK_m", "SDLK_p",
     "SDLK_o", "SDLK_z", "SDLK_DOWN", "SDLK_UP", "SDLK_LEFT", "SDLK_RIGHT",
     "SDLK_c", "SDLK_x", "SDLK_v", "SDLK_f", "SDLK_w", "SDLK_g", "SDLK_i",
     "SDLK_n", "SDLK_r", "SDLK_k", "SDLK_t"}

Called(cs, fn) == {k \in 1..Len(cs) : cs[k].fn = fn}

\* C4: a key event classified as a shortcut never reaches the key
\* processor's process_key, whatever the key and whatever its guard decided;
\* a shortcut key outside the table hands no message to the queue either.
C4_ShortcutSwallowsKey ==
    (IsKey(ev) /\ IsShortcut(ev)) =>
        /\ Called(calls, "process_key") = {}
        /\ ev.keycode \notin ShortcutTable => out = <<>>

\* The shortcut modifier key itself was released: the event carries no
\* modifier and is a shortcut by its keycode alone.
C4_Witness ==
    /\ ev.type = "SDL_KEYUP"
    /\ ev.keycode = "SDLK_LALT"
    /\ ev.mod = {}
    /\ im.kp # NULL
    /\ ~screen.paused
    /\ calls = <<>>

\* C5: a text input event calls process_text, once and with the event's
\* text, when a key processor with process_text is present, the screen is
\* not paused and no shortcut modifier is held; otherwise it changes nothing
\* and calls nothing.
C5_TextInput ==
    [][ev'.type = "SDL_TEXTINPUT" =>
          /\ im' = im /\ screen' = screen /\ out' = <<>>
          /\ calls' = (IF /\ im.kp # NULL
                          /\ im.kp.ops.process_text
                          /\ ~screen.paused
                          /\ ~is_shortcut_mod(im, ev'.modstate)
                       THEN <<[fn |-> "process_text", text |-> ev'.text]>>
                       ELSE <<>>)]_vars

\* Text arrived while the shortcut modifier was held and was dropped, with a
\* key processor that takes text and the screen not paused.
C5_Witness ==
    /\ ev.type = "SDL_TEXTINPUT"
    /\ ev.modstate = {"KMOD_LALT"}
    /\ im.kp # NULL
    /\ im.kp.ops.process_text
    /\ ~screen.paused
    /\ calls = <<>>

\* C8: key_repeat, last_keycode and last_mod change only on a key DOWN that
\* is no auto-repeat: key_repeat grows by one when the key and its modifiers
\* are the last ones, else it becomes 0 and the last ones become the
\* event's; every other event leaves the three alone.
C8_KeyRepeat ==
    [][IF ev'.type = "SDL_KEYDOWN" /\ ~ev'.repeat
       THEN IF ev'.keycode = im.last_keycode /\ ev'.mod = im.last_mod
            THEN /\ im'.key_repeat = im.key_repeat + 1
                 /\ im'.last_keycode = im.last_keycode
                 /\ im'.last_mod = im.last_mod
            ELSE /\ im'.key_repeat = 0
                 /\ im'.last_keycode = ev'.keycode
                 /\ im'.last_mod = ev'.mod
       ELSE /\ im'.key_repeat = im.key_repeat
            /\ im'.last_keycode = im.last_keycode
            /\ im'.last_mod = im.last_mod]_vars

\* An auto-repeat of the key pressed twice before left the count at 1.
C8_Witness ==
    /\ ev.type = "SDL_KEYDOWN"
    /\ ev.repeat
    /\ ev.keycode = im.last_keycode
    /\ ev.mod = im.last_mod
    /\ im.key_repeat = 1

\* C9: with a controller and the screen not paused, a shortcut n DOWN that
\* is no auto-repeat hands exactly one message to the queue: COLLAPSE_PANELS
\* with Shift; else EXPAND_NOTIFICATION_PANEL when the press starts a burst
\* and EXPAND_SETTINGS_PANEL when n was the last key pressed, with the same
\* modifiers; n UP and auto-repeats hand nothing.
C9_ShortcutN ==
    [][(IsKey(ev') /\ ev'.keycode = "SDLK_n" /\ is_shortcut_mod(im, ev'.mod)) =>
          IF ev'.type = "SDL_KEYDOWN" /\ ~ev'.repeat
          THEN (im.controller /\ ~screen.paused) =>
                  /\ Len(out') = 1
                  /\ out'[1].msg =
                        [type |-> IF (ev'.mod \cap KMOD_SHIFT) # {}
                                  THEN "COLLAPSE_PANELS"
                                  ELSE IF /\ im.last_keycode = "SDLK_n"
                                          /\ im.last_mod = ev'.mod
                                  THEN "EXPAND_SETTINGS_PANEL"
                                  ELSE "EXPAND_NOTIFICATION_PANEL"]
          ELSE out' = <<>>]_vars

\* The second press of a burst of shortcut n opened the settings panel.
C9_Witness ==
    /\ ev.type = "SDL_KEYDOWN"
    /\ ev.keycode = "SDLK_n"
    /\ ~ev.repeat
    /\ im.key_repeat = 1
    /\ Len(out) = 1
    /\ out[1].msg.type = "EXPAND_SETTINGS_PANEL"

----------------------------------------------------------------------------
(* Properties of the clipboard autosync path, under SpecPaste *)

\* A Ctrl+v DOWN without Shift that is no auto-repeat and no shortcut, with
\* clipboard_autosync set and legacy_paste unset.
AutosyncCtrlV(e) ==
    /\ e.type = "SDL_KEYDOWN"
    /\ e.keycode = "SDLK_v"
    /\ (e.mod \cap KMOD_CTRL) # {}
    /\ (e.mod \cap KMOD_SHIFT) = {}
    /\ ~e.repeat
    /\ ~IsShortcut(e)
    /\ im.clipboard_autosync
    /\ ~im.legacy_paste

\* What the step handling e does on the autosync path: the clipboard goes
\* out with a fresh sequence number (SC_SEQUENCE_INVALID without
\* async_paste) and the key follows, waiting for it; or the clipboard could
\* not be read or pushed and the key is dropped.
AutosyncOutcome(e) ==
    LET sequence == IF im.kp.async_paste THEN im.next_sequence
                    ELSE SC_SEQUENCE_INVALID
        pk == Called(calls', "process_key")
    IN IF e.clip # NULL /\ e.strdup_ok /\ Acc(e, 1)
       THEN /\ out' = <<[msg |-> [type |-> "SET_CLIPBOARD",
                                  sequence |-> sequence,
                                  text |-> e.clip.text,
                                  paste |-> FALSE],
                         ok |-> TRUE]>>
            /\ Cardinality(pk) = 1
            /\ \A k \in pk : calls'[k].ack_to_wait = sequence
            /\ im'.next_sequence =
                  (IF im.kp.async_paste THEN im.next_sequence + 1
                   ELSE im.next_sequence)
       ELSE /\ pk = {}
            /\ \A k \in 1..Len(out') : ~out'[k].ok
            /\ im'.next_sequence = im.next_sequence

----------------------------------------------------------------------------
(* Properties of inverse_point, under SpecPoint *)

\* C7: inverse_point maps x to W - x when invert_x is set and y to H - y
\* when invert_y is set, and applied twice with the same frame size and
\* flags it gives the point back.
C7_InverseInvolution ==
    /\ Len(calls) >= 1 =>
          calls[1].ret =
              [x |-> IF ev.invert_x
                     THEN screen.frame_size.width - ev.point.x ELSE ev.point.x,
               y |-> IF ev.invert_y
                     THEN screen.frame_size.height - ev.point.y ELSE ev.point.y]
    /\ Len(calls) = 2 => calls[2].ret = ev.point

\* A point right of and below the frame was reflected on both axes, to
\* negative coordinates, and reflected back.
C7_Witness ==
    /\ Len(calls) = 2
    /\ ev.invert_x /\ ev.invert_y
    /\ ev.point.x > screen.frame_size.width
    /\ ev.point.y > screen.frame_size.height
    /\ calls[1].ret.x < 0

----------------------------------------------------------------------------
(* Properties of the walk control and the touch buttons, under SpecPad *)

\* The touchmap is as the loader returned it: no gamepad event has reached
\* it yet.
FreshTouchmap ==
    \E f \in DOMAIN TouchmapFS, tie \in BOOLEAN :
        im.game_touchmap = parse_touchmap_config(TouchmapFS, [path |-> f], tie)

\* The gamepad events reach the touchmap engine (lines 1249-1254).
TouchmapMode ==
    im.controller /\ ~im.forward_game_controllers /\ im.game_touchmap # NULL

IsAxis(e, axes) == e.type = "SDL_CONTROLLERAXISMOTION" /\ e.axis \in axes

Msgs(o) == [k \in 1..Len(o) |-> o[k].msg]

\* C11: on a freshly loaded touchmap with a walk control of center (cx, cy)
\* and radius r, a LEFTX event of value v that leaves the dead zone hands
\* DOWN for finger 100 at (cx, cy), then MOVE at (cx + v*r/32767, cy).
C11_FirstWalkEvent ==
    [][(/\ TouchmapMode
        /\ FreshTouchmap
        /\ im.game_touchmap.walk.finger_id = SC_GPTM_BASE_FINGER_ID
        /\ IsAxis(ev', {SDL_CONTROLLER_AXIS_LEFTX})
        /\ LET d == TruncDiv(ev'.value * im.game_touchmap.walk.radius,
                             SDL_MAX_SINT16)
           IN d * d >= SC_GPTM_WALK_CONTROL_DEADZONE)
       => LET walk == im.game_touchmap.walk
              d == TruncDiv(ev'.value * walk.radius, SDL_MAX_SINT16)
          IN Msgs(out') =
                <<TouchMsg(SC_GPTM_BASE_FINGER_ID, "DOWN", walk.center,
                           screen.frame_size),
                  TouchMsg(SC_GPTM_BASE_FINGER_ID, "MOVE",
                           Point(walk.center.x + d, walk.center.y),
                           screen.frame_size)>>]_vars

LeftStick == {SDL_CONTROLLER_AXIS_LEFTX, SDL_CONTROLLER_AXIS_LEFTY}

\* The squared distance of the walk control from its center.
WalkDistance(walk) ==
    (walk.current_pos.x - walk.center.x) * (walk.current_pos.x - walk.center.x)
    + (walk.current_pos.y - walk.center.y) * (walk.current_pos.y - walk.center.y)

\* C12: after a LEFTX or LEFTY event in touchmap mode walk.touch_down holds
\* iff the squared distance d2 of current_pos from the center is >= 25; with
\* d2 < 25 the event hands one UP at the center when the finger was down and
\* nothing otherwise; with d2 >= 25 it hands DOWN at the center when the
\* finger was not down, and then one MOVE at current_pos.
C12_WalkDeadzone ==
    [][(TouchmapMode /\ IsAxis(ev', LeftStick)) =>
          LET was == im.game_touchmap.walk.touch_down
              walk == im'.game_touchmap.walk
              far == WalkDistance(walk) >= SC_GPTM_WALK_CONTROL_DEADZONE
              msg(action, point) ==
                  TouchMsg(walk.finger_id, action, point, screen.frame_size)
          IN /\ walk.touch_down = far
             /\ Msgs(out') =
                   IF ~far
                   THEN (IF was THEN <<msg("UP", walk.center)>> ELSE <<>>)
                   ELSE (IF was THEN <<>> ELSE <<msg("DOWN", walk.center)>>)
                        \o <<msg("MOVE", walk.current_pos)>>]_vars

\* The stick stopped on the edge of the dead zone, 5 pixels from the
\* center, and the finger went down there.
C12_Witness ==
    /\ IsAxis(ev, LeftStick)
    /\ im.game_touchmap # NULL
    /\ WalkDistance(im.game_touchmap.walk) = SC_GPTM_WALK_CONTROL_DEADZONE
    /\ im.game_touchmap.walk.touch_down
    /\ Len(out) = 2
    /\ out[1].msg.action = "DOWN"

IsButton(e) ==
    e.type \in {"SDL_CONTROLLERBUTTONDOWN", "SDL_CONTROLLERBUTTONUP"}

\* The entries of the touchmap whose code is that of the event's button.
Matching(map, e) ==
    {i \in 1..map.button_cnt : map.buttons[i].button = ToUint8(e.button)}

\* What a button event does to entry i of the touchmap, as C13 states it.
ButtonOutcome(i, e) ==
    LET B == im.game_touchmap.buttons[i]
        msg(action) == TouchMsg(B.finger_id, action, B.center, screen.frame_size)
    IN IF e.state # 0 /\ ~B.touch_down
       THEN /\ im'.game_touchmap.buttons[i].touch_down
            /\ Msgs(out') = <<msg("DOWN")>>
       ELSE IF e.state = 0 /\ B.touch_down
       THEN /\ ~im'.game_touchmap.buttons[i].touch_down
            /\ Msgs(out') = <<msg("UP")>>
       ELSE /\ out' = <<>>
            /\ im' = im

\* C13: a button event in touchmap mode whose code is that of an entry B
\* sets B.touch_down and hands one DOWN for B.finger_id at B.center when
\* pressed while B is up, clears it and hands one UP when released while B
\* is down, and does nothing otherwise; a code without entry hands nothing
\* and changes no control.
C13_ButtonDispatch ==
    [][(TouchmapMode /\ IsButton(ev')) =>
          /\ \A i \in Matching(im.game_touchmap, ev') : ButtonOutcome(i, ev')
          /\ Matching(im.game_touchmap, ev') = {} =>
                (out' = <<>> /\ im' = im)]_vars

----------------------------------------------------------------------------
(* Properties of the virtual finger gesture, under SpecMouse *)

VFingerIn(o) ==
    {k \in 1..Len(o) :
        /\ o[k].msg.type = "INJECT_TOUCH_EVENT"
        /\ o[k].msg.pointer_id \in VirtualIds}

\* Exactly one of Ctrl and Shift is in the modifier state.
OneOfCtrlShift(modstate) ==
    ((modstate \cap KMOD_CTRL) # {}) # ((modstate \cap KMOD_SHIFT) # {})

IsLeftDown(e) ==
    e.type = "SDL_MOUSEBUTTONDOWN" /\ e.button = "SDL_BUTTON_LEFT"

\* C14: vfinger_down is set only by a LEFT button DOWN that reached the
\* mouse processor, outside relative mode, with exactly one of Ctrl and
\* Shift held and the finger up; a LEFT DOWN with neither or both held, and
\* an event of any other button, neither sets vfinger_down nor hands a
\* virtual finger message to the queue.
C14_VFingerActivation ==
    [][/\ (~im.vfinger_down /\ im'.vfinger_down) =>
             /\ IsLeftDown(ev')
             /\ OneOfCtrlShift(ev'.modstate)
             /\ ~im.mp.relative_mode
             /\ Called(calls', "process_mouse_click") # {}
       /\ (\/ IsLeftDown(ev') /\ ~OneOfCtrlShift(ev'.modstate)
           \/ /\ ev'.type \in {"SDL_MOUSEBUTTONDOWN", "SDL_MOUSEBUTTONUP"}
              /\ ev'.button # "SDL_BUTTON_LEFT") =>
             /\ im'.vfinger_down = im.vfinger_down
             /\ VFingerIn(out') = {}]_vars

\* A left click with Ctrl and Shift both held reached the mouse processor
\* in absolute mode and left the virtual finger up.
C14_Witness ==
    /\ IsLeftDown(ev)
    /\ ev.modstate = {"KMOD_LCTRL", "KMOD_LSHIFT"}
    /\ ~im.mp.relative_mode
    /\ Called(calls, "process_mouse_click") # {}
    /\ ~im.vfinger_down
    /\ out = <<>>

\* The point of the frame under the mouse, mirrored in the axes whose flag
\* is set.
Reflected(e, invert_x, invert_y) ==
    LET mouse == sc_screen_convert_window_to_frame_coords(screen, e.x, e.y)
    IN Point(IF invert_x THEN screen.frame_size.width - mouse.x ELSE mouse.x,
             IF invert_y THEN screen.frame_size.height - mouse.y ELSE mouse.y)

\* C15: the inversion flags are chosen when the virtual finger goes down
\* (invert_x = Ctrl or Shift, invert_y = Ctrl) and stay as they are while it
\* is down; every virtual finger message of a motion or a release during
\* the gesture is a MOVE, respectively an UP, at the mouse position
\* reflected with the flags chosen at DOWN, whatever modifiers are held,
\* and one is handed over for each such event the unpaused screen gets.
C15_LatchedInversion ==
    [][/\ (~im.vfinger_down /\ im'.vfinger_down) =>
             /\ im'.vfinger_invert_x =
                    (((ev'.modstate \cap KMOD_CTRL) # {})
                       \/ ((ev'.modstate \cap KMOD_SHIFT) # {}))
             /\ im'.vfinger_invert_y = ((ev'.modstate \cap KMOD_CTRL) # {})
             /\ \A k \in VFingerIn(out') :
                   /\ out'[k].msg.action = "DOWN"
                   /\ out'[k].msg.point =
                        Reflected(ev', im'.vfinger_invert_x,
                                  im'.vfinger_invert_y)
       /\ im.vfinger_down =>
             /\ im'.vfinger_invert_x = im.vfinger_invert_x
             /\ im'.vfinger_invert_y = im.vfinger_invert_y
             /\ \A k \in VFingerIn(out') :
                   /\ out'[k].msg.point =
                        Reflected(ev', im.vfinger_invert_x,
                                  im.vfinger_invert_y)
                   /\ ev'.type = "SDL_MOUSEMOTION" =>
                        out'[k].msg.action = "MOVE"
                   /\ ev'.type = "SDL_MOUSEBUTTONUP" =>
                        out'[k].msg.action = "UP"
       /\ (im.vfinger_down /\ ~screen.paused
              /\ ev'.type = "SDL_MOUSEMOTION") =>
             VFingerIn(out') # {}
       /\ (im.vfinger_down /\ ~screen.paused
              /\ ev'.type = "SDL_MOUSEBUTTONUP"
              /\ ev'.button = "SDL_BUTTON_LEFT") =>
             VFingerIn(out') # {}]_vars

\* A gesture started with Ctrl (both flags set) is released with only Shift
\* held, and the UP is at the point mirrored in both axes.
C15_Witness ==
    /\ ev.type = "SDL_MOUSEBUTTONUP"
    /\ ev.button = "SDL_BUTTON_LEFT"
    /\ ev.modstate = {"KMOD_RSHIFT"}
    /\ im.vfinger_invert_x
    /\ im.vfinger_invert_y
    /\ \E k \in VFingerIn(out) :
          /\ out[k].msg.action = "UP"
          /\ out[k].msg.point = Reflected(ev, TRUE, TRUE)
          /\ out[k].msg.point # Reflected(ev, TRUE, FALSE)

----------------------------------------------------------------------------
(* Properties of touchmap loading, under SpecPad *)

\* The event opened the file dialog and the loader returned no touchmap
\* for the file chosen.
FailedLoad(cs) ==
    \E k \in Called(cs, "parse_touchmap_config") : ~cs[k].loaded

\* C16: a load through the file dialog that fails leaves the touchmap
\* loaded before it in place and unchanged.
C16_FailedLoadKeepsTouchmap ==
    [][FailedLoad(calls') => im'.game_touchmap = im.game_touchmap]_vars

\* The file has every field the loader reads: mappings, the walk control
\* with center and radius, touch and button in every button entry, center,
\* radius and button in every skill entry.
Conforming(file) ==
    /\ Has(file, "root")
    /\ Has(file.root, "mappings")
    /\ LET mappings == file.root.mappings
           buttons == IF Has(mappings, "button_mappings")
                      THEN mappings.button_mappings ELSE <<>>
           skills == IF Has(mappings, "skill_casting")
                     THEN mappings.skill_casting ELSE <<>>
       IN /\ Has(mappings, "walk_control")
          /\ Has(mappings.walk_control, "center")
          /\ Has(mappings.walk_control, "radius")
          /\ \A k \in 1..Len(buttons) :
                Has(buttons[k], "touch") /\ Has(buttons[k], "button")
          /\ \A k \in 1..Len(skills) :
                /\ Has(skills[k], "center")
                /\ Has(skills[k], "radius")
                /\ Has(skills[k], "button")

ConformingPath(filename) ==
    /\ filename # NULL
    /\ filename.path \in DOMAIN TouchmapFS
    /\ Conforming(TouchmapFS[filename.path])

\* C17: the loader yields a touchmap only for a file that has every
\* required field, at start (touchmap_file) and through the dialog, and a
\* loaded touchmap has no control that is still all zero.
C17_LoaderAbsence ==
    /\ (ev = NoEvent /\ im.game_touchmap # NULL) =>
          ConformingPath(im.touchmap_file)
    /\ \A k \in Called(calls, "parse_touchmap_config") :
          calls[k].loaded => ConformingPath(calls[k].filename)
    /\ im.game_touchmap # NULL =>
          /\ im.game_touchmap.walk.finger_id # 0
          /\ \A k \in 1..Len(im.game_touchmap.buttons) :
                im.game_touchmap.buttons[k].finger_id # 0

\* What of a control the file gives and no event changes.
Geometry(c) ==
    [center |-> c.center, radius |-> c.radius, is_skill |-> c.is_skill]

\* The controls a conforming file asks for, with the finger each is to
\* get: 100 + k for the k-th button entry, 100 + b + j for the j-th skill.
ExpectedControls(file) ==
    LET mappings == file.root.mappings
        buttons == IF Has(mappings, "button_mappings")
                   THEN mappings.button_mappings ELSE <<>>
        skills == IF Has(mappings, "skill_casting")
                  THEN mappings.skill_casting ELSE <<>>
    IN {[center |-> Point(buttons[k].touch.x, buttons[k].touch.y),
         radius |-> 0, is_skill |-> FALSE,
         finger_id |-> SC_GPTM_BASE_FINGER_ID + k] : k \in 1..Len(buttons)}
       \cup
       {[center |-> Point(skills[j].center.x, skills[j].center.y),
         radius |-> skills[j].radius, is_skill |-> TRUE,
         finger_id |-> SC_GPTM_BASE_FINGER_ID + Len(buttons) + j] :
            j \in 1..Len(skills)}

\* The touchmap has the controls of the file, by their geometry.
LoadedFrom(map, file) ==
    /\ map \notin Indeterminate
    /\ map.walk.center = Point(file.root.mappings.walk_control.center.x,
                               file.root.mappings.walk_control.center.y)
    /\ map.walk.radius = file.root.mappings.walk_control.radius
    /\ Len(map.buttons) = Cardinality(ExpectedControls(file))
    /\ {Geometry(map.buttons[k]) : k \in 1..Len(map.buttons)}
          = {Geometry(c) : c \in ExpectedControls(file)}

FingersAsInFile(map) ==
    \A f \in DOMAIN TouchmapFS :
        (Conforming(TouchmapFS[f]) /\ LoadedFrom(map, TouchmapFS[f])) =>
            /\ map.walk.finger_id = SC_GPTM_BASE_FINGER_ID
            /\ {[center |-> map.buttons[k].center,
                 radius |-> map.buttons[k].radius,
                 is_skill |-> map.buttons[k].is_skill,
                 finger_id |-> map.buttons[k].finger_id] :
                    k \in 1..Len(map.buttons)}
                  = ExpectedControls(TouchmapFS[f])
            /\ \A k \in 1..Len(map.buttons) :
                  /\ map.buttons[k].finger_id # map.walk.finger_id
                  /\ \A l \in 1..Len(map.buttons) :
                        map.buttons[k].finger_id = map.buttons[l].finger_id
                            => k = l

IsGamepad(e) ==
    e.type \in {"SDL_CONTROLLERAXISMOTION", "SDL_CONTROLLERBUTTONDOWN",
                "SDL_CONTROLLERBUTTONUP"}

\* C18: a touchmap loaded from a conforming file has finger 100 on the walk
\* control, 100 + k on the k-th button entry and 100 + b + j on the j-th
\* skill entry, wherever the sort put them, all of them distinct; and a
\* gamepad event changes the finger of no control.
C18_FingerIds ==
    [][/\ FingersAsInFile(im.game_touchmap)
       /\ FingersAsInFile(im'.game_touchmap)
       /\ (IsGamepad(ev') /\ im.game_touchmap # NULL) =>
             /\ im'.game_touchmap # NULL
             /\ im'.game_touchmap.walk.finger_id
                   = im.game_touchmap.walk.finger_id
             /\ Len(im'.game_touchmap.buttons) = Len(im.game_touchmap.buttons)
             /\ \A k \in 1..Len(im.game_touchmap.buttons) :
                   im'.game_touchmap.buttons[k].finger_id
                     = im.game_touchmap.buttons[k].finger_id]_vars

\* The touchmap of unsorted_json, whose A entry (second in the file, finger
\* 102) the sort put first, after a press of A.
C18_Witness ==
    /\ ev.type = "SDL_CONTROLLERBUTTONDOWN"
    /\ LoadedFrom(im.game_touchmap, TouchmapFS.unsorted_json)
    /\ im.game_touchmap.buttons[1].touch_down
    /\ im.game_touchmap.buttons[1].finger_id = SC_GPTM_BASE_FINGER_ID + 2
    /\ im.game_touchmap.buttons[2].finger_id = SC_GPTM_BASE_FINGER_ID + 1

\* The entries of the touchmap that carry the finger given.
WithFinger(map, finger_id) ==
    {k \in 1..Len(map.buttons) : map.buttons[k].finger_id = finger_id}

\* The finger of the skill entry of unsorted_json, the one named "R2".
R2Finger == SC_GPTM_BASE_FINGER_ID + 3

\* C19: the entry named R2 carries the code of the right trigger,
\* MAX_BUTTON + TRIGGERRIGHT, as an entry named RT does, and a press of the
\* right trigger drives it: a touch message goes out for its finger.
C19_R2IsRightTrigger ==
    [][LoadedFrom(im.game_touchmap, TouchmapFS.unsorted_json) =>
         /\ \A k \in WithFinger(im.game_touchmap, R2Finger) :
               im.game_touchmap.buttons[k].button
                 = SDL_CONTROLLER_BUTTON_MAX + SDL_CONTROLLER_AXIS_TRIGGERRIGHT
         /\ (/\ TouchmapMode
             /\ IsAxis(ev', {SDL_CONTROLLER_AXIS_TRIGGERRIGHT})
             /\ ev'.value > 0
             /\ \A k \in WithFinger(im.game_touchmap, R2Finger) :
                   ~im.game_touchmap.buttons[k].touch_down) =>
               \E k \in 1..Len(out') :
                   /\ out'[k].msg.type = "INJECT_TOUCH_EVENT"
                   /\ out'[k].msg.pointer_id = R2Finger]_vars

----------------------------------------------------------------------------
(* Properties of the routing of gamepad events, under SpecRoute *)

RawType(e) ==
    IF e.type = "SDL_CONTROLLERAXISMOTION"
    THEN "INJECT_GAME_CONTROLLER_AXIS"
    ELSE "INJECT_GAME_CONTROLLER_BUTTON"

RawIn(o) ==
    {k \in 1..Len(o) :
        o[k].msg.type \in {"INJECT_GAME_CONTROLLER_AXIS",
                           "INJECT_GAME_CONTROLLER_BUTTON"}}

TouchIn(o) == {k \in 1..Len(o) : o[k].msg.type = "INJECT_TOUCH_EVENT"}

\* C20: with a controller, a gamepad event under forward_game_controllers
\* hands exactly one raw message of its kind to the queue, no touch
\* message, and leaves the touchmap as it is; without
\* forward_game_controllers it hands no raw message, only touch messages,
\* and nothing at all when no touchmap is loaded.
C20_GamepadRouting ==
    [][(IsGamepad(ev') /\ im.controller) =>
         IF im.forward_game_controllers
         THEN /\ Len(out') = 1
              /\ out'[1].msg.type = RawType(ev')
              /\ out'[1].msg.id = ev'.which
              /\ TouchIn(out') = {}
              /\ im'.game_touchmap = im.game_touchmap
         ELSE /\ RawIn(out') = {}
              /\ TouchIn(out') = 1..Len(out')
              /\ im.game_touchmap = NULL =>
                    (out' = <<>> /\ im'.game_touchmap = NULL)]_vars

\* A press of A goes out raw although a touchmap with an A entry is
\* loaded, and the entry stays up.
C20_Witness ==
    /\ ev.type = "SDL_CONTROLLERBUTTONDOWN"
    /\ ev.button = SDL_CONTROLLER_BUTTON_A
    /\ im.forward_game_controllers
    /\ LoadedFrom(im.game_touchmap, TouchmapFS.ok_json)
    /\ RawIn(out) = {1}
    /\ \A k \in 1..Len(im.game_touchmap.buttons) :
          ~im.game_touchmap.buttons[k].touch_down

----------------------------------------------------------------------------
(* Properties of the triggers, under SpecTrigger *)

\* The button event a trigger event of value v stands for: the virtual
\* button MAX_BUTTON + axis, pressed at 20% (v * 5 / 32767 >= 1) or more.
TriggerAsButton(e) ==
    [button |-> SDL_CONTROLLER_BUTTON_MAX + e.axis,
     state |-> IF e.value >= 6554 THEN 1 ELSE 0]

\* C21: in touchmap mode a trigger event of value v is dispatched to the
\* virtual button MAX_BUTTON + axis as a press when v >= 6554 and as a
\* release for every other v of [-32768, 32767].
C21_TriggerThreshold ==
    [][(TouchmapMode /\ IsAxis(ev', TriggerAxes)) =>
          /\ \A i \in Matching(im.game_touchmap, TriggerAsButton(ev')) :
                ButtonOutcome(i, TriggerAsButton(ev'))
          /\ Matching(im.game_touchmap, TriggerAsButton(ev')) = {} =>
                (out' = <<>> /\ im' = im)]_vars

----------------------------------------------------------------------------
(* Properties of skill aiming, under SpecSkill *)

RightStick == {SDL_CONTROLLER_AXIS_RIGHTX, SDL_CONTROLLER_AXIS_RIGHTY}

\* The skills the right stick aims: the skill buttons that are down.
Aimed(map) ==
    {i \in 1..map.button_cnt :
        map.buttons[i].is_skill /\ map.buttons[i].touch_down}

\* Where an axis event puts a control: center + value * radius / 32767 on
\* the axis of the event, the other coordinate as it was.
AimedAt(ctl, e, x_axis) ==
    IF e.axis = x_axis
    THEN Point(ctl.center.x + TruncDiv(e.value * ctl.radius, SDL_MAX_SINT16),
               ctl.current_pos.y)
    ELSE Point(ctl.current_pos.x,
               ctl.center.y + TruncDiv(e.value * ctl.radius, SDL_MAX_SINT16))

ForFinger(o, finger_id) ==
    {k \in 1..Len(o) : o[k].msg.pointer_id = finger_id}

\* C22: a RIGHTX or RIGHTY event in touchmap mode puts every skill button
\* that is down at center + value * radius / 32767 on the axis of the event
\* and hands exactly one MOVE at that position for it; the other buttons
\* get no message and stay as they are, the walk control stays as it is
\* and no touch_down changes.
C22_SkillAim ==
    [][(TouchmapMode /\ IsAxis(ev', RightStick)) =>
          LET map == im.game_touchmap
              after == im'.game_touchmap
          IN /\ after # NULL
             /\ after.walk = map.walk
             /\ after.button_cnt = map.button_cnt
             /\ Len(out') = Cardinality(Aimed(map))
             /\ \A i \in 1..map.button_cnt :
                   /\ after.buttons[i].touch_down = map.buttons[i].touch_down
                   /\ IF i \in Aimed(map)
                      THEN /\ after.buttons[i].current_pos =
                                AimedAt(map.buttons[i], ev',
                                        SDL_CONTROLLER_AXIS_RIGHTX)
                           /\ \E k \in 1..Len(out') :
                                /\ ForFinger(out', map.buttons[i].finger_id)
                                      = {k}
                                /\ out'[k].msg =
                                      TouchMsg(map.buttons[i].finger_id, "MOVE",
                                               after.buttons[i].current_pos,
                                               screen.frame_size)
                      ELSE /\ after.buttons[i] = map.buttons[i]
                           /\ ForFinger(out', map.buttons[i].finger_id) = {}]_vars

\* Both skills are down and a RIGHTX event of negative value has moved
\* each of them to the left of its center, while the A button got nothing.
C22_Witness ==
    /\ IsAxis(ev, {SDL_CONTROLLER_AXIS_RIGHTX})
    /\ ev.value = -32768
    /\ TouchmapMode
    /\ Cardinality(Aimed(im.game_touchmap)) = 2
    /\ Len(out) = 2
    /\ \A i \in Aimed(im.game_touchmap) :
          im.game_touchmap.buttons[i].current_pos.x
            = im.game_touchmap.buttons[i].center.x
                - im.game_touchmap.buttons[i].radius

----------------------------------------------------------------------------
(* Properties of the controller slots, under SpecDevice *)

FreeSlots(i) ==
    {k \in 1..MAX_GAME_CONTROLLERS : i.game_controllers[k] = NULL}

SlotsOf(i, id) ==
    {k \in 1..MAX_GAME_CONTROLLERS : i.game_controllers[k] = [id |-> id]}

\* C23: a device-added event with no slot free, or whose device cannot be
\* opened, changes no slot and hands nothing to the queue; one that
\* succeeds fills exactly one slot that was free and hands one device-added
\* message; the removal of a controller a slot holds frees exactly that
\* slot and hands one device-removed message.
C23_ControllerSlots ==
    [][im.controller =>
         /\ ev'.type = "SDL_CONTROLLERDEVICEADDED" =>
               IF FreeSlots(im) = {} \/ ev'.opened = NULL
               THEN /\ im'.game_controllers = im.game_controllers
                    /\ out' = <<>>
               ELSE /\ \E k \in FreeSlots(im) :
                         im'.game_controllers =
                           [im.game_controllers EXCEPT ![k] = ev'.opened]
                    /\ Msgs(out') =
                         <<[type |-> "INJECT_GAME_CONTROLLER_DEVICE",
                            id |-> ev'.opened.id, event |-> 0]>>
         /\ (/\ ev'.type = "SDL_CONTROLLERDEVICEREMOVED"
             /\ SlotsOf(im, ev'.which) # {}) =>
               /\ \E k \in SlotsOf(im, ev'.which) :
                    /\ SlotsOf(im, ev'.which) = {k}
                    /\ im'.game_controllers =
                         [im.game_controllers EXCEPT ![k] = NULL]
               /\ Msgs(out') =
                    <<[type |-> "INJECT_GAME_CONTROLLER_DEVICE",
                       id |-> ev'.which, event |-> 1]>>]_vars

\* A fifth controller was announced and opened while the four slots held
\* four others: no slot holds it and nothing went out.
C23_Witness ==
    /\ ev.type = "SDL_CONTROLLERDEVICEADDED"
    /\ ev.opened # NULL
    /\ FreeSlots(im) = {}
    /\ SlotsOf(im, ev.opened.id) = {}
    /\ out = <<>>

----------------------------------------------------------------------------
(* Properties of the mouse buttons, under SpecClick *)

IsMouseButton(e) == e.type \in {"SDL_MOUSEBUTTONDOWN", "SDL_MOUSEBUTTONUP"}

\* What the configuration binds the button of the event to.
Bound(e) ==
    CASE e.button = "SDL_BUTTON_LEFT" -> "SC_MOUSE_BINDING_CLICK"
      [] e.button = "SDL_BUTTON_RIGHT" -> im.mouse_bindings.right_click
      [] e.button = "SDL_BUTTON_MIDDLE" -> im.mouse_bindings.middle_click
      [] e.button = "SDL_BUTTON_X1" -> im.mouse_bindings.click4
      [] e.button = "SDL_BUTTON_X2" -> im.mouse_bindings.click5
      [] OTHER -> "SC_MOUSE_BINDING_DISABLED"

SpecialBindings ==
    {"SC_MOUSE_BINDING_BACK", "SC_MOUSE_BINDING_HOME",
     "SC_MOUSE_BINDING_APP_SWITCH",
     "SC_MOUSE_BINDING_EXPAND_NOTIFICATION_PANEL", "SC_MOUSE_BINDING_DISABLED"}

\* The messages of the remote actions a special binding stands for.
ActionIn(o) ==
    {k \in 1..Len(o) :
        o[k].msg.type \in {"INJECT_KEYCODE", "BACK_OR_SCREEN_ON",
                           "EXPAND_NOTIFICATION_PANEL", "EXPAND_SETTINGS_PANEL"}}

VFingerState(i) ==
    <<i.vfinger_down, i.vfinger_invert_x, i.vfinger_invert_y>>

\* C24: with a controller and the screen not paused, a button bound to
\* BACK, HOME, APP_SWITCH, EXPAND_NOTIFICATION_PANEL or DISABLED never
\* reaches process_mouse_click, never resizes the window and never changes
\* the virtual finger; the left button is always a click, never a remote
\* action; and a button event from SDL_TOUCH_MOUSEID changes nothing.
C24_SpecialBindings ==
    [][IsMouseButton(ev') =>
         /\ ev'.which = SDL_TOUCH_MOUSEID =>
               /\ im' = im
               /\ screen' = screen
               /\ out' = <<>>
               /\ calls' = <<>>
         /\ (/\ ev'.which # SDL_TOUCH_MOUSEID
             /\ im.controller
             /\ ~screen.paused
             /\ Bound(ev') \in SpecialBindings) =>
               /\ Called(calls', "process_mouse_click") = {}
               /\ Called(calls', "sc_screen_resize_to_fit") = {}
               /\ VFingerState(im') = VFingerState(im)
               /\ VFingerIn(out') = {}
         /\ ev'.button = "SDL_BUTTON_LEFT" => ActionIn(out') = {}]_vars

\* A double click of the right button, bound to BACK, on the black border
\* went out as BACK_OR_SCREEN_ON and nowhere else.
C24_Witness ==
    /\ ev.type = "SDL_MOUSEBUTTONDOWN"
    /\ ev.button = "SDL_BUTTON_RIGHT"
    /\ ev.clicks = 2
    /\ im.mouse_bindings.right_click = "SC_MOUSE_BINDING_BACK"
    /\ Len(out) = 1
    /\ out[1].msg.type = "BACK_OR_SCREEN_ON"
    /\ calls = <<>>

\* The click is on the black border: outside the rectangle the frame is
\* rendered in.
OutsideRect(e) ==
    LET p == sc_screen_hidpi_scale_coords(screen, e.x, e.y)
    IN \/ p.x < screen.rect.x
       \/ p.x >= screen.rect.x + screen.rect.w
       \/ p.y < screen.rect.y
       \/ p.y >= screen.rect.y + screen.rect.h

\* C25: with video and the mouse not in relative mode, a LEFT event of a
\* double click outside the frame rectangle is swallowed: the press resizes
\* the window to fit, the release does not, and neither reaches
\* process_mouse_click or the virtual finger.
C25_DoubleClickOnBorder ==
    [][(/\ IsMouseButton(ev')
        /\ ev'.which # SDL_TOUCH_MOUSEID
        /\ ev'.button = "SDL_BUTTON_LEFT"
        /\ ev'.clicks = 2
        /\ OutsideRect(ev')
        /\ screen.video
        /\ ~(im.mp # NULL /\ im.mp.relative_mode)) =>
          /\ calls' = IF ev'.type = "SDL_MOUSEBUTTONDOWN"
                      THEN <<[fn |-> "sc_screen_resize_to_fit"]>>
                      ELSE <<>>
          /\ out' = <<>>
          /\ VFingerState(im') = VFingerState(im)]_vars

\* The release of a double click on the border, with the virtual finger
\* down: nothing was forwarded and the finger is still down.
C25_Witness ==
    /\ ev.type = "SDL_MOUSEBUTTONUP"
    /\ ev.button = "SDL_BUTTON_LEFT"
    /\ ev.clicks = 2
    /\ OutsideRect(ev)
    /\ screen.video
    /\ ~screen.paused
    /\ im.vfinger_down
    /\ out = <<>>
    /\ calls = <<>>

----------------------------------------------------------------------------
(* Properties of the dispatcher, under SpecGate *)

MouseProcessorEvents ==
    {"SDL_MOUSEMOTION", "SDL_MOUSEWHEEL", "SDL_FINGERMOTION",
     "SDL_FINGERDOWN", "SDL_FINGERUP"}

ControllerEvents ==
    {"SDL_DROPFILE", "SDL_CONTROLLERAXISMOTION", "SDL_CONTROLLERBUTTONDOWN",
     "SDL_CONTROLLERBUTTONUP", "SDL_CONTROLLERDEVICEADDED",
     "SDL_CONTROLLERDEVICEREMOVED"}

\* The event called nobody, handed nothing to the queue and changed
\* nothing.
NoEffect ==
    /\ calls' = <<>>
    /\ out' = <<>>
    /\ im' = im
    /\ screen' = screen

\* C26: a mouse motion, wheel or finger event has an effect only with a
\* mouse processor and the screen not paused; a drop, controller axis,
\* controller button or controller device event has none without a
\* controller.
C26_DispatcherGating ==
    [][/\ (ev'.type \in MouseProcessorEvents
            /\ (im.mp = NULL \/ screen.paused)) => NoEffect
       /\ (ev'.type \in ControllerEvents /\ ~im.controller) => NoEffect]_vars

\* A mouse motion arrived while the screen was paused and a virtual finger
\* was down, and nothing came of it.
C26_Witness ==
    /\ ev.type = "SDL_MOUSEMOTION"
    /\ screen.paused
    /\ im.mp # NULL
    /\ im.vfinger_down
    /\ out = <<>>
    /\ calls = <<>>

\* A press of A arrived without a controller while a touchmap with an A
\* entry was loaded, and the entry is still up.
NoControllerGated ==
    /\ ev.type = "SDL_CONTROLLERBUTTONDOWN"
    /\ ~im.controller
    /\ im.game_touchmap # NULL
    /\ ~im.forward_game_controllers
    /\ \A k \in 1..im.game_touchmap.button_cnt :
          ~im.game_touchmap.buttons[k].touch_down
    /\ out = <<>>

----------------------------------------------------------------------------
(* Properties of the pause shortcut, under SpecKey *)

\* The event is shortcut z as the claims take it: a press that is no
\* repeat, with the shortcut modifier held.
IsShortcutZ(e) ==
    /\ e.type = "SDL_KEYDOWN"
    /\ e.keycode = "SDLK_z"
    /\ ~e.repeat
    /\ IsShortcut(e)

ShiftHeld(e) == (e.mod \cap KMOD_SHIFT) # {}

\* C27 as stated: with video, shortcut z without Shift pauses a screen that
\* is not paused and unpauses one that is.
C27_PauseToggle ==
    [][(IsShortcutZ(ev') /\ ~ShiftHeld(ev') /\ screen.video) =>
          screen'.paused = ~screen.paused]_vars

\* C27, amended: with video, shortcut z without Shift pauses the screen,
\* whether or not it is paused already, and shortcut z with Shift unpauses
\* it.
C27_PauseSet ==
    [][(IsShortcutZ(ev') /\ screen.video) =>
          /\ screen'.paused = ~ShiftHeld(ev')
          /\ Called(calls', "sc_screen_set_paused") # {}]_vars

\* Shortcut z without Shift came twice in a row (key_repeat counts the
\* second), so the screen was paused when the second came, and it still is.
C27_Witness ==
    /\ IsShortcutZ(ev)
    /\ ~ShiftHeld(ev)
    /\ screen.video
    /\ im.key_repeat = 1
    /\ screen.paused

----------------------------------------------------------------------------
(* Properties of the legacy paste, under SpecLegacy *)

\* A paste keystroke: a press of v that is no repeat, as a shortcut or as
\* Ctrl+v (no Shift) under clipboard_autosync.
PasteKeystroke(e) ==
    /\ e.type = "SDL_KEYDOWN"
    /\ e.keycode = "SDLK_v"
    /\ ~e.repeat
    /\ \/ IsShortcut(e)
       \/ /\ (e.mod \cap KMOD_CTRL) # {}
          /\ (e.mod \cap KMOD_SHIFT) = {}
          /\ im.clipboard_autosync

\* The clipboard of the host has a text to paste.
ClipboardHasText(e) == e.clip # NULL /\ e.clip.text # "" /\ e.strdup_ok

\* What a legacy paste does when inject says whether the text goes out.
LegacyOutcome(e, inject) ==
    /\ IF inject
       THEN Msgs(out') = <<[type |-> "INJECT_TEXT", text |-> e.clip.text]>>
       ELSE out' = <<>>
    /\ \A k \in 1..Len(out') : out'[k].msg.type # "SET_CLIPBOARD"
    /\ Called(calls', "process_key") = {}
    /\ im'.next_sequence = im.next_sequence

\* C28 as stated: with legacy_paste every paste keystroke hands the
\* clipboard over as one INJECT_TEXT unless it is empty or unreadable.
C28_LegacyPasteAlways ==
    [][(im.legacy_paste /\ PasteKeystroke(ev')) =>
          LegacyOutcome(ev', ClipboardHasText(ev'))]_vars

\* C28, with a key processor present and the screen not paused: with
\* legacy_paste a paste keystroke hands the clipboard over as one
\* INJECT_TEXT, none when it is empty or unreadable, never pushes
\* SET_CLIPBOARD, never calls process_key and leaves next_sequence; paused
\* or without key processor it hands nothing over at all.
C28_LegacyPaste ==
    [][(im.legacy_paste /\ PasteKeystroke(ev')) =>
          LegacyOutcome(ev', /\ ClipboardHasText(ev')
                             /\ im.kp # NULL
                             /\ ~screen.paused)]_vars

\* Ctrl+v under clipboard_autosync went out as the text of the clipboard
\* and the key processor did not see the key.
C28_Witness ==
    /\ im.legacy_paste
    /\ im.clipboard_autosync
    /\ ev.type = "SDL_KEYDOWN"
    /\ ev.keycode = "SDLK_v"
    /\ ev.mod = {"KMOD_LCTRL"}
    /\ ~ev.repeat
    /\ Len(out) = 1
    /\ out[1].msg = [type |-> "INJECT_TEXT", text |-> "abc"]
    /\ out[1].ok
    /\ Called(calls, "process_key") = {}

----------------------------------------------------------------------------
(* SpecDialog: shortcut t with every answer of the file dialog, with and   *)
(* without Shift, between gamepad events; the screen is paused and         *)
(* unpaused with shortcut z.                                               *)

DialogAnswers ==
    {NULL, [path |-> "ok_json"], [path |-> "skills_json"],
     [path |-> "bad_json"]}

DialogKeyEvents ==
    {KeyEvent("SDL_KEYDOWN", "SDLK_t", {"KMOD_LALT"}, FALSE, <<TRUE>>, NoClip,
              d, FALSE) : d \in DialogAnswers}
    \cup {KeyEvent(t, "SDLK_t", {"KMOD_LALT", "KMOD_LSHIFT"}, r, <<TRUE>>,
                   NoClip, NULL, FALSE) :
             t \in {"SDL_KEYDOWN", "SDL_KEYUP"}, r \in BOOLEAN}
    \cup {KeyEvent(t, "SDLK_t", {"KMOD_LALT"}, r, <<TRUE>>, NoClip,
                   [path |-> "skills_json"], FALSE) :
             t \in {"SDL_KEYDOWN", "SDL_KEYUP"}, r \in BOOLEAN}
    \cup {KeyEvent("SDL_KEYDOWN", "SDLK_z", mod, FALSE, <<TRUE>>, NoClip,
                   NULL, FALSE) :
             mod \in {{"KMOD_LALT"}, {"KMOD_LALT", "KMOD_LSHIFT"}}}

DialogAxisEvents ==
    {AxisEvent(a, 20000, <<TRUE, TRUE>>) :
        a \in {SDL_CONTROLLER_AXIS_LEFTX, SDL_CONTROLLER_AXIS_TRIGGERRIGHT}}

DialogButtonEvents ==
    {ButtonEvent(SDL_CONTROLLER_BUTTON_A, st, <<acc>>) :
        st \in {0, 1}, acc \in BOOLEAN}

InitDialog ==
    \E f \in {NULL, [path |-> "ok_json"]}, fgc \in BOOLEAN,
       kp \in {NULL, DefaultParams.kp} :
        InitWith([DefaultParams EXCEPT !.touchmap_file = f,
                                       !.forward_game_controllers = fgc,
                                       !.kp = kp],
                 TRUE, FALSE)

NextDialog ==
    \/ ControllerAxis(DialogAxisEvents)
    \/ ControllerButton(DialogButtonEvents)
    \/ Key(DialogKeyEvents)

SpecDialog == InitDialog /\ [][NextDialog]_vars

----------------------------------------------------------------------------
(* Properties of shortcut t, under SpecDialog *)

IsShortcutT(e) ==
    /\ e.type = "SDL_KEYDOWN"
    /\ e.keycode = "SDLK_t"
    /\ ~e.repeat
    /\ IsShortcut(e)

\* What the loader makes of the file the dialog returned.
Chosen(e) == parse_touchmap_config(TouchmapFS, e.dialog, e.tie)

\* C29: with a controller and a key processor, on a screen that is not
\* paused, a non-repeat press of shortcut t whose dialog is cancelled
\* leaves game_touchmap and forward_game_controllers as they are; one whose
\* file loads makes the loaded touchmap the current one and clears
\* forward_game_controllers; with Shift it leaves no touchmap and sets
\* forward_game_controllers.  A gamepad event changes neither
\* forward_game_controllers nor whether a touchmap is loaded, goes out as
\* one raw message and no touch message while forward_game_controllers is
\* set, and as touch messages only while it is clear.
C29_TouchmapShortcut ==
    [][/\ (/\ IsShortcutT(ev')
           /\ im.controller /\ im.kp # NULL /\ ~screen.paused) =>
              IF ShiftHeld(ev')
              THEN /\ im'.game_touchmap = NULL
                   /\ im'.forward_game_controllers
              ELSE IF ev'.dialog = NULL
              THEN /\ im'.game_touchmap = im.game_touchmap
                   /\ im'.forward_game_controllers
                         = im.forward_game_controllers
              ELSE Chosen(ev') # NULL =>
                      /\ im'.game_touchmap = Chosen(ev')
                      /\ ~im'.forward_game_controllers
       /\ (IsGamepad(ev') /\ im.controller) =>
              /\ im'.forward_game_controllers = im.forward_game_controllers
              /\ (im'.game_touchmap = NULL) = (im.game_touchmap = NULL)
              /\ IF im.forward_game_controllers
                 THEN /\ RawIn(out') = {1}
                      /\ Len(out') = 1
                      /\ out'[1].msg.type = RawType(ev')
                 ELSE /\ RawIn(out') = {}
                      /\ TouchIn(out') = 1..Len(out')]_vars

\* The file with two skills, which only the dialog offers, is loaded, and
\* the press of A that follows touches the button of that file.
C29_Witness ==
    /\ ev.type = "SDL_CONTROLLERBUTTONDOWN"
    /\ ev.button = SDL_CONTROLLER_BUTTON_A
    /\ ~im.forward_game_controllers
    /\ im.game_touchmap \notin Indeterminate
    /\ Len(im.game_touchmap.buttons) = 3
    /\ Len(out) = 1
    /\ IsTouch(out[1], 101, "DOWN")
    /\ out[1].msg.point = [x |-> 50, y |-> 50]

\* Shift+t has freed the touchmap the gamepad drove and set
\* forward_game_controllers.
TouchmapTurnedOff ==
    /\ IsShortcutT(ev)
    /\ ShiftHeld(ev)
    /\ Called(calls, "free_touchmap") # {}
    /\ im.game_touchmap = NULL
    /\ im.forward_game_controllers

----------------------------------------------------------------------------
(* SpecStick: the left stick pushed to its limits on either axis.          *)

StickAxisValues == {0, 32767, -32768, 23170, 3277}

StickAxisEvents ==
    {AxisEvent(a, v, <<TRUE, TRUE>>) :
        a \in {SDL_CONTROLLER_AXIS_LEFTX, SDL_CONTROLLER_AXIS_LEFTY},
        v \in StickAxisValues}

StickButtonEvents ==
    {ButtonEvent(SDL_CONTROLLER_BUTTON_A, st, <<TRUE>>) : st \in {0, 1}}

InitStick ==
    \E f \in {[path |-> "ok_json"], [path |-> "skills_json"]} :
        InitWith([DefaultParams EXCEPT !.touchmap_file = f], TRUE, FALSE)

NextStick ==
    \/ ControllerAxis(StickAxisEvents)
    \/ ControllerButton(StickButtonEvents)

SpecStick == InitStick /\ [][NextStick]_vars

----------------------------------------------------------------------------
(* Properties of the walk control, under SpecStick *)

\* The squared distance of point p from the center of the walk control.
FromCenter(walk, p) ==
    (p.x - walk.center.x) * (p.x - walk.center.x)
    + (p.y - walk.center.y) * (p.y - walk.center.y)

\* C30: every MOVE a LEFTX or LEFTY event hands to the queue for the finger
\* of the walk control is at a point whose squared distance from the center
\* of the walk control is at most the square of its radius.
C30_WalkWithinRadius ==
    [][(TouchmapMode /\ IsAxis(ev', LeftStick)) =>
          LET walk == im'.game_touchmap.walk
          IN \A k \in 1..Len(out') :
                IsTouch(out'[k], walk.finger_id, "MOVE") =>
                    FromCenter(walk, out'[k].msg.point)
                        <= walk.radius * walk.radius]_vars

\* Both axes at full deflection after the stick was centred on both: the
\* MOVE goes to the corner (cx + r, cy + r).
WalkAtCorner ==
    /\ IsAxis(ev, LeftStick)
    /\ im.game_touchmap # NULL
    /\ LET walk == im.game_touchmap.walk
       IN /\ walk.current_pos = [x |-> walk.center.x + walk.radius,
                                 y |-> walk.center.y + walk.radius]
          /\ out # <<>>
          /\ IsTouch(out[Len(out)], walk.finger_id, "MOVE")
          /\ out[Len(out)].msg.point = walk.current_pos
          /\ FromCenter(walk, walk.current_pos) = 2 * walk.radius * walk.radius

----------------------------------------------------------------------------
(* Properties of a full outbound queue, under SpecPad *)

\* The queue accepted a message of the given action for finger id.
Accepted(o, id, action) ==
    \E k \in 1..Len(o) : o[k].ok /\ IsTouch(o[k], id, action)

\* The control was up and is down, or the reverse, only with the DOWN or UP
\* for its finger accepted.
ToldToDevice(before, after, o) ==
    /\ (~before.touch_down /\ after.touch_down) =>
          Accepted(o, after.finger_id, "DOWN")
    /\ (before.touch_down /\ ~after.touch_down) =>
          Accepted(o, after.finger_id, "UP")

\* C31: vfinger_down changes only in a step in which the queue accepted
\* the DOWN or UP of a virtual pointer, and touch_down of the walk control
\* and of every button of a touchmap that stays loaded changes only in a
\* step in which the queue accepted the DOWN or UP of that control's finger.
C31_RejectedPushKeepsState ==
    [][/\ (~im.vfinger_down /\ im'.vfinger_down) =>
              \E id \in VirtualIds : Accepted(out', id, "DOWN")
       /\ (im.vfinger_down /\ ~im'.vfinger_down) =>
              \E id \in VirtualIds : Accepted(out', id, "UP")
       /\ (/\ im.game_touchmap # NULL
           /\ im'.game_touchmap # NULL
           /\ ~TouchmapChanged(calls')) =>
              /\ ToldToDevice(im.game_touchmap.walk, im'.game_touchmap.walk,
                              out')
              /\ \A i \in 1..im.game_touchmap.button_cnt :
                     ToldToDevice(im.game_touchmap.buttons[i],
                                  im'.game_touchmap.buttons[i], out')]_vars

----------------------------------------------------------------------------
(* Properties of fingers across touchmaps, under SpecDialog *)

\* The fingers whose DOWN handed to the queue since the load has no UP
\* after it.
DownOnDevice(h) == {id \in FingerIds : h.handed[id] > 0}

\* C32: while a touchmap stays loaded, every finger whose last DOWN has no
\* later UP is the finger of one of its controls with touch_down set; and
\* an event that frees or replaces the touchmap hands an UP for every
\* finger that is down at that moment.
C32_NoFingerLeftDown ==
    [][/\ (im'.game_touchmap # NULL /\ ~TouchmapChanged(calls')) =>
              \A id \in DownOnDevice(hist') :
                 \E C \in Controls(im'.game_touchmap) :
                    C.finger_id = id /\ C.touch_down
       /\ TouchmapChanged(calls') =>
              \A id \in DownOnDevice(hist) :
                 \E k \in 1..Len(out') : IsTouch(out'[k], id, "UP")]_vars

----------------------------------------------------------------------------
(* Properties of device removal, under SpecDevice *)

\* The device-removed messages among o.
RemovedIn(o) ==
    {k \in 1..Len(o) :
        /\ o[k].msg.type = "INJECT_GAME_CONTROLLER_DEVICE"
        /\ o[k].msg.event = 1}

\* C33: a device-removed message is handed to the queue only for an
\* instance id whose controller a slot holds at that moment; the removal
\* of an id no slot holds hands nothing to the queue and changes no slot.
C33_RemovedOnlyIfHeld ==
    [][/\ \A k \in RemovedIn(out') : SlotsOf(im, out'[k].msg.id) # {}
       /\ (/\ ev'.type = "SDL_CONTROLLERDEVICEREMOVED"
           /\ SlotsOf(im, ev'.which) = {}) =>
              /\ out' = <<>>
              /\ im'.game_controllers = im.game_controllers]_vars

----------------------------------------------------------------------------
(* SpecGesture: the walk control and the skills of one touchmap driven by  *)
(* both sticks, the right trigger and button A in any order, the touchmap  *)
(* reloaded in between, the queue accepting every message.                 *)

GestureAxisEvents ==
    {AxisEvent(SDL_CONTROLLER_AXIS_LEFTX, v, <<TRUE>>) : v \in {0, 20000}}
    \cup {AxisEvent(SDL_CONTROLLER_AXIS_LEFTY, 0, <<TRUE>>)}
    \cup {AxisEvent(SDL_CONTROLLER_AXIS_RIGHTX, v, <<TRUE>>) : v \in {0, 20000}}
    \cup {AxisEvent(SDL_CONTROLLER_AXIS_TRIGGERRIGHT, v, <<TRUE>>) :
             v \in {0, 32767}}

GestureButtonEvents ==
    {ButtonEvent(SDL_CONTROLLER_BUTTON_A, st, <<TRUE>>) : st \in {0, 1}}

GestureKeyEvents ==
    {KeyEvent("SDL_KEYDOWN", "SDLK_t", {"KMOD_LALT"}, FALSE, <<TRUE>>, NoClip,
              [path |-> "skills_json"], FALSE)}

InitGesture ==
    InitWith([DefaultParams EXCEPT !.touchmap_file = [path |-> "skills_json"]],
             TRUE, FALSE)

NextGesture ==
    \/ ControllerAxis(GestureAxisEvents)
    \/ ControllerButton(GestureButtonEvents)
    \/ Key(GestureKeyEvents)

SpecGesture == InitGesture /\ [][NextGesture]_vars

----------------------------------------------------------------------------
(* Properties of the gesture streams, under SpecGesture *)

\* C34: in the stream handed to a queue that accepts every message, a MOVE
\* for a touchmap finger comes only after a DOWN for that finger with no UP
\* for it in between, for the walk control and for the skills.
C34_MoveWithinGesture ==
    \A id \in FingerIds : hist.moves[id] # "bad"

\* A skill is held and aimed with the right stick while the walk control
\* is down: the event handed one MOVE for the skill's finger, which the
\* queue accepted, and both fingers are between their DOWN and their UP.
C34_Witness ==
    /\ IsAxis(ev, {SDL_CONTROLLER_AXIS_RIGHTX})
    /\ im.game_touchmap # NULL
    /\ im.game_touchmap.walk.touch_down
    /\ hist.moves[im.game_touchmap.walk.finger_id] = "down"
    /\ \E i \in 1..im.game_touchmap.button_cnt :
          LET btn == im.game_touchmap.buttons[i]
          IN /\ btn.is_skill
             /\ btn.touch_down
             /\ hist.moves[btn.finger_id] = "down"
             /\ Len(out) = 1
             /\ out[1].ok
             /\ IsTouch(out[1], btn.finger_id, "MOVE")

----------------------------------------------------------------------------
(* SpecPaused: every shortcut of the table, a plain key, Ctrl+v and the    *)
(* mouse buttons, on a screen that shortcut z pauses and unpauses.         *)

PausedKeyEvents ==
    {KeyEvent("SDL_KEYDOWN", k, {"KMOD_LALT"}, FALSE, <<TRUE>>, NULL,
              NULL, FALSE) : k \in ShortcutTable}
    \cup {KeyEvent("SDL_KEYDOWN", k, {"KMOD_LALT", "KMOD_LSHIFT"}, FALSE,
                   <<TRUE>>, NULL, NULL, FALSE) :
             k \in {"SDLK_z", "SDLK_DOWN", "SDLK_LEFT", "SDLK_v", "SDLK_t"}}
    \cup {KeyEvent("SDL_KEYUP", "SDLK_h", {"KMOD_LALT"}, FALSE, <<TRUE>>, NULL,
                   NULL, FALSE),
          KeyEvent("SDL_KEYDOWN", "SDLK_a", {}, FALSE, <<TRUE>>, NULL,
                   NULL, FALSE),
          KeyEvent("SDL_KEYDOWN", "SDLK_v", {"KMOD_LCTRL"}, FALSE, <<TRUE>>,
                   NULL, NULL, FALSE)}

PausedButtonEvents ==
    {MouseButtonEvent(t, "SDL_BUTTON_LEFT", 100, 150, 1, {"KMOD_LCTRL"},
                      <<TRUE>>) :
        t \in {"SDL_MOUSEBUTTONDOWN", "SDL_MOUSEBUTTONUP"}}
    \cup {MouseButtonEvent("SDL_MOUSEBUTTONDOWN", "SDL_BUTTON_LEFT", 450, 150,
                           2, {}, <<TRUE>>),
          MouseButtonEvent("SDL_MOUSEBUTTONDOWN", "SDL_BUTTON_RIGHT", 100, 150,
                           1, {}, <<TRUE>>),
          MouseButtonEvent("SDL_MOUSEBUTTONDOWN", "SDL_BUTTON_X2", 100, 150,
                           1, {}, <<TRUE>>)}

InitPaused == InitWith(DefaultParams, TRUE, FALSE)

NextPaused ==
    \/ Key(PausedKeyEvents)
    \/ MouseButton(PausedButtonEvents)

SpecPaused == InitPaused /\ [][NextPaused]_vars

----------------------------------------------------------------------------
(* Properties of the paused screen, under SpecPaused *)

\* The calls that act on the local screen only.
LocalScreenActions ==
    {"sc_screen_set_paused", "sc_screen_set_orientation",
     "sc_screen_switch_fullscreen", "sc_screen_resize_to_fit",
     "sc_screen_resize_to_pixel_perfect", "sc_fps_counter_start",
     "sc_fps_counter_stop"}

\* C35: a key event or a mouse button event that arrives while the screen
\* is paused hands no message to the queue, leaves vfinger_down as it is
\* and calls nothing but local screen actions: neither the key processor
\* nor the mouse processor is invoked.
C35_PausedDropsInput ==
    [][(screen.paused /\ (IsKey(ev') \/ IsMouseButton(ev'))) =>
          /\ out' = <<>>
          /\ im'.vfinger_down = im.vfinger_down
          /\ \A k \in 1..Len(calls') :
                calls'[k].fn \in LocalScreenActions]_vars

\* The screen was paused with the virtual finger down, and the release of
\* the left button was dropped: the finger is still down.
C35_Witness ==
    /\ screen.paused
    /\ ev.type = "SDL_MOUSEBUTTONUP"
    /\ ev.button = "SDL_BUTTON_LEFT"
    /\ im.vfinger_down
    /\ out = <<>>
    /\ calls = <<>>

\* A shortcut acted on the local screen while it was paused.
PausedScreenAction ==
    /\ screen.paused
    /\ IsKey(ev)
    /\ ev.keycode = "SDLK_f"
    /\ Called(calls, "sc_screen_switch_fullscreen") # {}

----------------------------------------------------------------------------
(* SpecAssert: the shortcuts, clicks and motions that lead to an assertion, *)
(* for every configuration sc_input_manager_init accepts: with and without *)
(* controller, key processor and mouse processor, with processors that     *)
(* lack a capability, in absolute and in relative mode.                    *)

AssertParams ==
    {DefaultParams,
     [DefaultParams EXCEPT !.kp = KeyProcessor(TRUE, TRUE, TRUE)],
     [DefaultParams EXCEPT !.kp.ops.process_key = FALSE],
     [DefaultParams EXCEPT !.mp.ops.process_mouse_click = FALSE,
                           !.mp.ops.process_mouse_motion = FALSE],
     [DefaultParams EXCEPT !.mp = MouseProcessor(TRUE)],
     [DefaultParams EXCEPT !.kp = NULL],
     [DefaultParams EXCEPT !.mp = NULL],
     [DefaultParams EXCEPT !.controller = FALSE, !.kp = NULL, !.mp = NULL]}

AssertKeys ==
    {"SDLK_h", "SDLK_b", "SDLK_s", "SDLK_m", "SDLK_p", "SDLK_o", "SDLK_DOWN",
     "SDLK_UP", "SDLK_c", "SDLK_x", "SDLK_v", "SDLK_n", "SDLK_r", "SDLK_k",
     "SDLK_t"}

AssertKeyEvents ==
    {KeyEvent("SDL_KEYDOWN", k, {"KMOD_LALT"}, FALSE, <<TRUE>>, NULL, NULL,
              FALSE) : k \in AssertKeys}
    \cup {KeyEvent("SDL_KEYDOWN", k, {"KMOD_LALT", "KMOD_LSHIFT"}, FALSE,
                   <<TRUE>>, NULL, NULL, FALSE) :
             k \in {"SDLK_n", "SDLK_v", "SDLK_t"}}
    \cup {KeyEvent("SDL_KEYDOWN", k, {}, FALSE, <<TRUE>>, NULL, NULL, FALSE) :
             k \in {"SDLK_a", "SDLK_LALT"}}
    \cup {KeyEvent("SDL_KEYDOWN", "SDLK_v", {"KMOD_LCTRL"}, FALSE, <<TRUE>>,
                   NULL, NULL, FALSE)}

AssertButtonEvents ==
    {MouseButtonEvent(t, "SDL_BUTTON_LEFT", 100, 150, 1, {"KMOD_LCTRL"},
                      <<TRUE>>) :
        t \in {"SDL_MOUSEBUTTONDOWN", "SDL_MOUSEBUTTONUP"}}
    \cup {MouseButtonEvent("SDL_MOUSEBUTTONDOWN", b, 100, 150, 1, {}, <<TRUE>>) :
             b \in {"SDL_BUTTON_RIGHT", "SDL_BUTTON_MIDDLE", "SDL_BUTTON_X1",
                    "SDL_BUTTON_X2", "SDL_BUTTON_6"}}

AssertMotionEvents == {MouseMotionEvent(250, 300, <<TRUE>>)}

InitAssert == \E params \in AssertParams : InitWith(params, TRUE, FALSE)

NextAssert ==
    \/ Key(AssertKeyEvents)
    \/ MouseButton(AssertButtonEvents)
    \/ MouseMotion(AssertMotionEvents)

SpecAssert == InitAssert /\ [][NextAssert]_vars

----------------------------------------------------------------------------
(* Properties of the assertions, under SpecAssert *)

\* The assertions of the last event that did not hold.
FailedAssertions == {calls[k].at : k \in Called(calls, "assert_failed")}

\* The assertions on a capability of a processor (lines 713, 752, 906).
CapabilityAssertions ==
    {"process_key:713", "process_mouse_motion:752", "process_mouse_button:906"}

\* C36: with a key or mouse processor only where there is a controller, no
\* mouse binding AUTO and relative_mode fixed, no event makes an assertion
\* of the input manager fail.
C36_NoAssertionFails == FailedAssertions = {}

\* The assertions on the controller, the key processor, the mouse bindings
\* and the virtual finger all hold; only those on a capability can fail.
ContextAssertionsHold == FailedAssertions \subseteq CapabilityAssertions

\* The full processors never fail an assertion.
FullCapabilitiesHold ==
    (/\ im.kp # NULL => im.kp.ops.process_key
     /\ im.mp # NULL => (/\ im.mp.ops.process_mouse_click
                         /\ im.mp.ops.process_mouse_motion))
        => FailedAssertions = {}

----------------------------------------------------------------------------
(* Properties of a manager started without a touchmap file, under          *)
(* SpecDialog                                                              *)

\* The event loaded a touchmap through the file dialog.
LoadedByDialog(cs) ==
    \E k \in Called(cs, "parse_touchmap_config") : cs[k].loaded

\* C37: a manager started without touchmap_file holds no touchmap, and
\* none until an event loads one through the dialog of shortcut t; as long
\* as it holds none, a gamepad axis or button event that arrives with
\* forward_game_controllers clear hands nothing to the queue, reads no
\* touchmap and leaves the manager as it is.
C37_NoTouchmapWithoutFile ==
    /\ ((im.touchmap_file = NULL) => (im.game_touchmap = NULL))
    /\ [][ /\ ((im.game_touchmap = NULL /\ ~LoadedByDialog(calls'))
                  => (im'.game_touchmap = NULL))
            /\ ((/\ im.touchmap_file = NULL
                 /\ im.game_touchmap \in Indeterminate
                 /\ ~im.forward_game_controllers
                 /\ IsGamepad(ev'))
                  => (out' = <<>> /\ calls' = <<>> /\ im' = im)) ]_vars

\* The claim for a manager whose memory was zero before
\* sc_input_manager_init.
ZeroedManagerHoldsNoTouchmap ==
    [][ /\ ((im.game_touchmap = NULL /\ ~LoadedByDialog(calls'))
              => (im'.game_touchmap = NULL))
        /\ ((/\ im.game_touchmap = NULL
             /\ ~im.forward_game_controllers
             /\ IsGamepad(ev'))
              => (out' = <<>> /\ calls' = <<>> /\ im' = im)) ]_vars

============================================================================
